---- MODULE Spec2Model ----
(***************************************************************************)
(* AnnotatePDF: the annotation store (src/src/app/page.tsx), the pointer   *)
(* interaction machine and the document/render effects of the viewer       *)
(* (src/src/components/pdf-viewer.tsx), the editing panel                  *)
(* (src/src/components/annotation-sidebar.tsx) and the export transform    *)
(* (handleDownload in page.tsx).                                           *)
(*                                                                         *)
(* JavaScript numbers are modelled as exact rationals <<n, d>> in lowest   *)
(* terms with d > 0; <<0, 0>> is NaN.  Strings that the code inspects      *)
(* (image width/height) are sequences of one-character strings.            *)
(***************************************************************************)
EXTENDS Integers, Sequences, FiniteSets, Bags, TLC

(***************************************************************************)
(* Numbers                                                                 *)
(***************************************************************************)
Abs(n) == IF n < 0 THEN -n ELSE n

RECURSIVE GCD(_, _)
GCD(a, b) == IF b = 0 THEN a ELSE GCD(b, a % b)

NaN == <<0, 0>>

IsNaN(r) == r[2] = 0

Rat(n, d) ==
  IF d = 0 THEN NaN
  ELSE LET g == GCD(Abs(n), Abs(d))
           s == IF d < 0 THEN -1 ELSE 1
       IN  <<(s * n) \div g, (s * d) \div g>>

Num(n) == <<n, 1>>

RAdd(a, b) == IF IsNaN(a) \/ IsNaN(b) THEN NaN ELSE Rat(a[1] * b[2] + b[1] * a[2], a[2] * b[2])

RSub(a, b) == IF IsNaN(a) \/ IsNaN(b) THEN NaN ELSE Rat(a[1] * b[2] - b[1] * a[2], a[2] * b[2])

RMul(a, b) == IF IsNaN(a) \/ IsNaN(b) THEN NaN ELSE Rat(a[1] * b[1], a[2] * b[2])

RDiv(a, b) == IF IsNaN(a) \/ IsNaN(b) \/ b[1] = 0 THEN NaN ELSE Rat(a[1] * b[2], a[2] * b[1])

\* Comparisons with NaN are false, as in JavaScript.
RLt(a, b) == ~IsNaN(a) /\ ~IsNaN(b) /\ a[1] * b[2] < b[1] * a[2]

RLe(a, b) == ~IsNaN(a) /\ ~IsNaN(b) /\ a[1] * b[2] <= b[1] * a[2]

\* Math.max / Math.min: NaN if either argument is NaN.
RMax(a, b) == IF IsNaN(a) \/ IsNaN(b) THEN NaN ELSE IF RLt(a, b) THEN b ELSE a

RMin(a, b) == IF IsNaN(a) \/ IsNaN(b) THEN NaN ELSE IF RLt(b, a) THEN b ELSE a

\* The largest integer <= a (a not NaN).
RFloor(a) == IF a[1] >= 0 THEN a[1] \div a[2] ELSE -((-a[1] + a[2] - 1) \div a[2])

RECURSIVE Pow10(_)
Pow10(k) == IF k = 0 THEN 1 ELSE 10 * Pow10(k - 1)

(***************************************************************************)
(* Strings as sequences of characters                                      *)
(***************************************************************************)
Digits == <<"0", "1", "2", "3", "4", "5", "6", "7", "8", "9">>

DigitVals == [c \in {"0", "1", "2", "3", "4", "5", "6", "7", "8", "9"} |->
                CASE c = "0" -> 0 [] c = "1" -> 1 [] c = "2" -> 2 [] c = "3" -> 3
                  [] c = "4" -> 4 [] c = "5" -> 5 [] c = "6" -> 6 [] c = "7" -> 7
                  [] c = "8" -> 8 [] OTHER -> 9]

IsDigit(c) == c \in DOMAIN DigitVals

DigitVal(c) == DigitVals[c]

\* String.prototype.endsWith
EndsWith(s, suf) ==
  /\ Len(s) >= Len(suf)
  /\ SubSeq(s, Len(s) - Len(suf) + 1, Len(s)) = suf

\* The index after the longest run of digits of s that starts at i.
RECURSIVE DigitsEnd(_, _)
DigitsEnd(s, i) == IF i <= Len(s) /\ IsDigit(s[i]) THEN DigitsEnd(s, i + 1) ELSE i

\* The number written by the digits s[i .. j-1] (0 for an empty run).
RECURSIVE DigitsValue(_, _, _)
DigitsValue(s, i, j) ==
  IF j <= i THEN 0 ELSE 10 * DigitsValue(s, i, j - 1) + DigitVal(s[j - 1])

\* 10^v or 10^-v
ExponentValue(v, negative) == IF negative THEN Rat(1, Pow10(v)) ELSE Num(Pow10(v))

\* The factor written by an exponent part e [+-] digits that starts at s[i]: 1
\* when there is none or it has no digit.
ExponentScale(s, i) ==
  IF ~(i <= Len(s) /\ s[i] \in {"e", "E"}) THEN Num(1)
  ELSE IF i + 1 <= Len(s) /\ s[i + 1] \in {"-", "+"}
    THEN ExponentValue(DigitsValue(s, i + 2, DigitsEnd(s, i + 2)), s[i + 1] = "-")
  ELSE ExponentValue(DigitsValue(s, i + 1, DigitsEnd(s, i + 1)), FALSE)

\* digits . digits [exponent], the integer digits s[i1 .. intEnd-1] and the
\* fraction digits s[intEnd+1 .. fracEnd-1]; NaN when there is no digit at all.
ParseWithFraction(s, i1, intEnd, fracEnd) ==
  IF intEnd = i1 /\ fracEnd = intEnd + 1 THEN NaN
  ELSE RMul(RAdd(Num(DigitsValue(s, i1, intEnd)),
                 Rat(DigitsValue(s, intEnd + 1, fracEnd), Pow10(fracEnd - intEnd - 1))),
            ExponentScale(s, fracEnd))

\* The unsigned literal that starts at s[i1], its integer digits ending before
\* intEnd.
ParseUnsigned(s, i1, intEnd) ==
  IF intEnd <= Len(s) /\ s[intEnd] = "."
    THEN ParseWithFraction(s, i1, intEnd, DigitsEnd(s, intEnd + 1))
  ELSE IF intEnd > i1 THEN RMul(Num(DigitsValue(s, i1, intEnd)), ExponentScale(s, intEnd))
  ELSE NaN

\* parseFloat: the value of the longest prefix that is a decimal literal
\* [+-] (digits [. digits] | . digits) [e [+-] digits], NaN when there is none.
ParseFloat(s) ==
  IF Len(s) >= 1 /\ s[1] \in {"-", "+"}
    THEN RMul(Num(IF s[1] = "-" THEN -1 ELSE 1), ParseUnsigned(s, 2, DigitsEnd(s, 2)))
  ELSE ParseUnsigned(s, 1, DigitsEnd(s, 1))

\* The decimal digits of a natural number.
RECURSIVE NatToChars(_)
NatToChars(n) == IF n < 10 THEN <<Digits[n + 1]>> ELSE NatToChars(n \div 10) \o <<Digits[(n % 10) + 1]>>

\* Number.prototype.toFixed(2): the nearest multiple of 1/100, the larger one on
\* a tie, written with exactly two decimals.
ToFixed2(r) ==
  LET neg  == r[1] < 0
      a    == IF neg THEN <<-r[1], r[2]>> ELSE r
      h    == RFloor(RAdd(RMul(a, Num(100)), Rat(1, 2)))
      body == NatToChars(h \div 100) \o <<".", Digits[((h \div 10) % 10) + 1], Digits[(h % 10) + 1]>>
  IN  IF neg THEN <<"-">> \o body ELSE body

(***************************************************************************)
(* Bounds of the model                                                     *)
(***************************************************************************)
\* Annotation ids handed out in one run.
MaxIds == 2

\* Document loads and page renders in flight at once.
MaxLoads == 1

MaxRenders == 1

\* Image placements whose file dialog or file read is pending.
MaxPicks == 1

(***************************************************************************)
(* The environment: the documents a user can choose, and their pages       *)
(***************************************************************************)
\* A chosen file is identified by the document it holds; 0 is "no file" (null).
NoDoc == 0

\* The documents offered by the file picker: each is a sequence of page sizes in
\* PDF points, or a document the loader rejects (no pages to show).
DocPages(doc) ==
  CASE doc = 1 -> << <<400, 400>>, <<200, 400>> >>
    [] doc = 2 -> << <<400, 200>> >>
    [] OTHER   -> << >>

\* Documents pdf.js opens; any other chosen file makes getDocument reject.
GoodDocs == {1, 2}

BadDocs == {3}

\* page.getViewport({ scale }): the page size times the zoom factor.
Viewport(doc, page, sc) ==
  [width  |-> RMul(Num(DocPages(doc)[page][1]), sc),
   height |-> RMul(Num(DocPages(doc)[page][2]), sc)]

\* A new <canvas> element is 300 x 150 until a render sizes it.
DefaultCanvas == [width |-> 300, height |-> 150]

\* Option values: <<>> is null, <<v>> is a present value.
None == << >>

Some(v) == <<v>>

(***************************************************************************)
(* State                                                                   *)
(***************************************************************************)
VARIABLES
  \* page.tsx (AnnotatePdfPage)
  pdfFile,               \* the chosen document, NoDoc when none
  annotations,           \* the store: a sequence of annotation records
  selectedTool,          \* "text", "image" or "none"
  currentPage,
  numPages,
  scale,                 \* the zoom factor, a rational
  selectedAnnotationId,  \* an id, 0 when none
  \* pdf-viewer.tsx (PdfViewer)
  pdfDoc,                \* the document pdf.js holds open, NoDoc when none
  pageDimensions,        \* [width, height] of the last finished render
  pdfLoadingError,       \* "" when none, else the kind of the message
  draggingAnnotationId,  \* an id, 0 when none
  dragStartOffset,       \* None or Some([x, y]) in percent
  resizeState,           \* None or Some(ResizeState)
  canvas,                \* [width, height] of the mounted <canvas> element
  \* work in flight
  loads,                 \* bag of pending document loads [file, page]
  renders,               \* bag of pending renderPage calls [doc, page, scale, phase]
  picks,                 \* bag of pending image placements
  exports,               \* bag of handleDownload calls under way: what each captured
  download,              \* None, or Some(outcome of the export that finished last)
  \* bookkeeping of the model
  grab,                  \* the pointer-down that began the drag in progress
  nextId,                \* the next fresh annotation id
  placedOn,              \* id -> the document whose rendering the placement click hit
  last                   \* the last event handled

vars == <<pdfFile, annotations, selectedTool, currentPage, numPages, scale,
          selectedAnnotationId, pdfDoc, pageDimensions, pdfLoadingError,
          draggingAnnotationId, dragStartOffset, resizeState, canvas,
          loads, renders, picks, exports, download, grab, nextId, placedOn, last>>

pageVars == <<pdfFile, annotations, selectedTool, currentPage, numPages, scale,
              selectedAnnotationId>>

gestureVars == <<draggingAnnotationId, dragStartOffset, resizeState, grab>>

exportVars == <<exports, download>>

\* useState initial values (page.tsx 17-24, pdf-viewer.tsx 57-66) after the mount
\* effects ran with the pdf.js library present.
Init ==
  /\ pdfFile = NoDoc
  /\ annotations = << >>
  /\ selectedTool = "none"
  /\ currentPage = 1
  /\ numPages = 0
  /\ scale = Num(1)
  /\ selectedAnnotationId = 0
  /\ pdfDoc = NoDoc
  /\ pageDimensions = [width |-> Num(0), height |-> Num(0)]
  /\ pdfLoadingError = ""
  /\ draggingAnnotationId = 0
  /\ dragStartOffset = None
  /\ resizeState = None
  /\ canvas = DefaultCanvas
  /\ loads = EmptyBag
  /\ renders = EmptyBag
  /\ picks = EmptyBag
  /\ exports = EmptyBag
  /\ download = None
  /\ grab = None
  /\ nextId = 1
  /\ placedOn = << >>
  /\ last = [op |-> "other"]

(***************************************************************************)
(* React effects of PdfViewer that follow a committed state change         *)
(***************************************************************************)
\* The <canvas> is in the DOM (pdf-viewer.tsx 483-498): a file is chosen, no error
\* is shown and a document is open.
Mounted(file, err, doc) == file # NoDoc /\ err = "" /\ doc # NoDoc

CanvasMounted == Mounted(pdfFile, pdfLoadingError, pdfDoc)

\* The annotation layer is shown (pdf-viewer.tsx 499).
LayerShown == CanvasMounted /\ RLt(Num(0), pageDimensions.width)

\* The document load effect (pdf-viewer.tsx 78-137) and the render effect
\* (pdf-viewer.tsx 181-193) with renderPage's entry checks (140-149), run after
\* the handler's own updates are committed.  err, ls, rs and cv are the error,
\* pending loads, pending renders and canvas the handler leaves; newFile says the
\* handler stored a new File object, newDoc a new pdf.js document object.
Effects(err, ls, rs, cv, newFile, newDoc) ==
  LET loadRuns   == newFile \/ pdfFile' # pdfFile \/ currentPage' # currentPage
      startLoad  == loadRuns /\ pdfFile' # NoDoc
      renderRuns == \/ newFile \/ newDoc
                    \/ pdfFile' # pdfFile \/ pdfDoc' # pdfDoc
                    \/ currentPage' # currentPage \/ numPages' # numPages
                    \/ scale' # scale
      midMounted == Mounted(pdfFile', err, pdfDoc')
      startRender == /\ renderRuns /\ pdfDoc' # NoDoc
                     /\ currentPage' > 0 /\ currentPage' <= numPages'
                     /\ midMounted
      finalErr   == IF startLoad THEN "" ELSE err
      endMounted == Mounted(pdfFile', finalErr, pdfDoc')
  IN  /\ pdfLoadingError' = finalErr
      /\ loads' = IF startLoad
                    THEN ls (+) SetToBag({[file |-> pdfFile', page |-> currentPage']})
                    ELSE ls
      /\ renders' = IF startRender
                      THEN rs (+) SetToBag({[doc |-> pdfDoc', page |-> currentPage',
                                             scale |-> scale', phase |-> "getPage"]})
                      ELSE rs
      /\ canvas' = IF endMounted /\ CanvasMounted /\ midMounted THEN cv ELSE DefaultCanvas
      /\ BagCardinality(loads') <= MaxLoads
      /\ BagCardinality(renders') <= MaxRenders

\* A handler that touches neither the viewer's error nor the work in flight.
PlainEffects == Effects(pdfLoadingError, loads, renders, canvas, FALSE, FALSE)

(***************************************************************************)
(* The annotation store (page.tsx 42-61)                                   *)
(***************************************************************************)
Ids(store) == {store[i].id : i \in 1..Len(store)}

\* annotations.find(a => a.id === id); only used when the id is present.
Find(store, id) == store[CHOOSE i \in 1..Len(store) : store[i].id = id /\ \A j \in 1..(i - 1) : store[j].id # id]

\* prev.map((anno) => (anno.id === updated.id ? updated : anno))
UpdateStore(store, updated) ==
  [i \in 1..Len(store) |-> IF store[i].id = updated.id THEN updated ELSE store[i]]

\* prev.filter((anno) => anno.id !== id)
FilterStore(store, id) == SelectSeq(store, LAMBDA a : a.id # id)

\* A file-picker dialog of an image placement is open: the page takes no input.
PickerOpen == \E p \in BagToSet(picks) : p.stage = "picker"

\* addAnnotation (page.tsx 42-47): an id, append, reset the tool, select.  The
\* id is Date.now().toString() followed by up to seven base-36 digits of
\* Math.random() (page.tsx 43); the strings the generator has given are numbered
\* in the order of their first appearance, and here it gives one it has not
\* given before.  doc is the document whose rendering the placement click was
\* made on.
AddAnnotation(data, doc) ==
  /\ nextId <= MaxIds
  /\ annotations' = Append(annotations, data @@ [id |-> nextId])
  /\ selectedTool' = "none"
  /\ selectedAnnotationId' = nextId
  /\ nextId' = nextId + 1
  /\ placedOn' = Append(placedOn, doc)

\* addAnnotation when the generator gives the string it gave to an earlier call:
\* Date.now() reads the same value (two calls within the clock's resolution, or
\* the system clock set back) and Math.random() the same digits.
AddAnnotationRepeating(data, doc, id) ==
  /\ id \in 1..(nextId - 1)
  /\ Len(annotations) < MaxIds
  /\ annotations' = Append(annotations, data @@ [id |-> id])
  /\ selectedTool' = "none"
  /\ selectedAnnotationId' = id
  /\ UNCHANGED <<nextId, placedOn>>

\* A file change that keeps the store and the selection.
FileChangeKeepingStore(f) ==
  /\ ~PickerOpen
  /\ pdfFile' = f
  /\ currentPage' = 1
  /\ scale' = Num(1)
  /\ selectedTool' = "none"
  /\ UNCHANGED <<annotations, selectedAnnotationId, numPages, pdfDoc, pageDimensions,
                 gestureVars, picks, nextId, placedOn>>
  /\ Effects(pdfLoadingError, loads, renders, canvas, TRUE, FALSE)
  /\ last' = [op |-> "fileChange", accepted |-> TRUE,
              had |-> [annos |-> annotations # << >>, page |-> currentPage # 1,
                       scale |-> scale # Num(1), tool |-> selectedTool # "none",
                       sel |-> selectedAnnotationId # 0]]
  /\ UNCHANGED exportVars

\* A file change that abandons the exports under way.
FileChangeCancellingExports(f) ==
  /\ ~PickerOpen
  /\ pdfFile' = f
  /\ annotations' = << >>
  /\ currentPage' = 1
  /\ scale' = Num(1)
  /\ selectedTool' = "none"
  /\ selectedAnnotationId' = 0
  /\ UNCHANGED <<numPages, pdfDoc, pageDimensions, gestureVars, picks, nextId, placedOn>>
  /\ Effects(pdfLoadingError, loads, renders, canvas, TRUE, FALSE)
  /\ last' = [op |-> "fileChange", accepted |-> TRUE,
              had |-> [annos |-> annotations # << >>, page |-> currentPage # 1,
                       scale |-> scale # Num(1), tool |-> selectedTool # "none",
                       sel |-> selectedAnnotationId # 0]]
  /\ exports' = EmptyBag
  /\ UNCHANGED download

\* handleFileChange (page.tsx 27-40) with a file of type application/pdf.
HandleFileChange(f) ==
  /\ ~PickerOpen
  /\ pdfFile' = f
  /\ annotations' = << >>
  /\ currentPage' = 1
  /\ scale' = Num(1)
  /\ selectedTool' = "none"
  /\ selectedAnnotationId' = 0
  /\ UNCHANGED <<numPages, pdfDoc, pageDimensions, gestureVars, picks, nextId, placedOn>>
  /\ Effects(pdfLoadingError, loads, renders, canvas, TRUE, FALSE)
  /\ last' = [op |-> "fileChange", accepted |-> TRUE,
              had |-> [annos |-> annotations # << >>, page |-> currentPage # 1,
                       scale |-> scale # Num(1), tool |-> selectedTool # "none",
                       sel |-> selectedAnnotationId # 0]]
  /\ UNCHANGED exportVars

\* handleFileChange with no file or a file of another type: only a toast.
HandleFileChangeInvalid ==
  /\ ~PickerOpen
  /\ UNCHANGED <<pageVars, pdfDoc, pageDimensions, pdfLoadingError, gestureVars, canvas,
                 loads, renders, picks, nextId, placedOn>>
  /\ last' = [op |-> "fileChange", accepted |-> FALSE]
  /\ UNCHANGED exportVars

\* A delete that only filters the store.
DeleteFromStoreOnly(id) ==
  /\ ~PickerOpen
  /\ id \in Ids(annotations)
  /\ annotations' = FilterStore(annotations, id)
  /\ UNCHANGED <<pdfFile, selectedTool, currentPage, numPages, scale, selectedAnnotationId,
                 pdfDoc, pageDimensions, gestureVars, picks, nextId, placedOn>>
  /\ PlainEffects
  /\ last' = [op |-> "delete", id |-> id, wasSelected |-> selectedAnnotationId = id]
  /\ UNCHANGED exportVars

\* deleteAnnotation (page.tsx 56-61), reached from the panel's trash buttons
\* (annotation-sidebar.tsx 41 and 101).
DeleteAnnotation(id) ==
  /\ ~PickerOpen
  /\ id \in Ids(annotations)
  /\ annotations' = FilterStore(annotations, id)
  /\ selectedAnnotationId' = IF selectedAnnotationId = id THEN 0 ELSE selectedAnnotationId
  /\ UNCHANGED <<pdfFile, selectedTool, currentPage, numPages, scale, pdfDoc, pageDimensions,
                 gestureVars, picks, nextId, placedOn>>
  /\ PlainEffects
  /\ last' = [op |-> "delete", id |-> id, wasSelected |-> selectedAnnotationId = id]
  /\ UNCHANGED exportVars

\* A click on an annotation's card in the panel (annotation-sidebar.tsx 37, 97).
SelectInPanel(id) ==
  /\ ~PickerOpen
  /\ id \in Ids(annotations)
  /\ selectedAnnotationId' = id
  /\ UNCHANGED <<pdfFile, annotations, selectedTool, currentPage, numPages, scale, pdfDoc,
                 pageDimensions, gestureVars, picks, nextId, placedOn>>
  /\ PlainEffects
  /\ last' = [op |-> "other"]
  /\ UNCHANGED exportVars

\* The Add Text / Add Image buttons (page.tsx 231-244): toggle the tool.
ToggleTool(tool) ==
  /\ ~PickerOpen
  /\ pdfFile # NoDoc
  /\ selectedTool' = IF selectedTool = tool THEN "none" ELSE tool
  /\ UNCHANGED <<pdfFile, annotations, currentPage, numPages, scale, selectedAnnotationId,
                 pdfDoc, pageDimensions, gestureVars, picks, nextId, placedOn>>
  /\ PlainEffects
  /\ last' = [op |-> "other"]
  /\ UNCHANGED exportVars

\* One 15 degree step that is not wrapped.
UnwrappedRotation(currentRotation, direction) ==
  IF direction = "cw" THEN currentRotation + 15 ELSE currentRotation - 15

\* newRotation (page.tsx 209): one 15 degree step, wrapped into [0, 360).
NewRotation(currentRotation, direction) ==
  IF direction = "cw" THEN (currentRotation + 15) % 360
  ELSE (currentRotation - 15 + 360) % 360

\* handleAnnotationRotation (page.tsx 204-212); the buttons are shown while a
\* document is chosen and something is selected (page.tsx 254, 268).
HandleAnnotationRotation(direction) ==
  /\ ~PickerOpen
  /\ pdfFile # NoDoc
  /\ selectedAnnotationId # 0
  /\ LET found == selectedAnnotationId \in Ids(annotations)
         a     == Find(annotations, selectedAnnotationId)
         newRotation == NewRotation(a.rotation, direction)
     IN  /\ annotations' = IF found
                             THEN UpdateStore(annotations, [a EXCEPT !.rotation = newRotation])
                             ELSE annotations
         /\ last' = [op |-> "rotate", direction |-> direction, id |-> selectedAnnotationId,
                     found |-> found, from |-> IF found THEN a.rotation ELSE 0]
  /\ UNCHANGED <<pdfFile, selectedTool, currentPage, numPages, scale, selectedAnnotationId,
                 pdfDoc, pageDimensions, gestureVars, picks, nextId, placedOn>>
  /\ PlainEffects
  /\ UNCHANGED exportVars

\* The previous / next page buttons (page.tsx 256, 258).
PrevPage ==
  /\ ~PickerOpen
  /\ pdfFile # NoDoc
  /\ currentPage > 1
  /\ currentPage' = IF currentPage - 1 < 1 THEN 1 ELSE currentPage - 1
  /\ UNCHANGED <<pdfFile, annotations, selectedTool, numPages, scale, selectedAnnotationId,
                 pdfDoc, pageDimensions, gestureVars, picks, nextId, placedOn>>
  /\ PlainEffects
  /\ last' = [op |-> "page"]
  /\ UNCHANGED exportVars

NextPage ==
  /\ ~PickerOpen
  /\ pdfFile # NoDoc
  /\ ~(currentPage >= numPages \/ numPages = 0)
  /\ currentPage' = IF currentPage + 1 > numPages THEN numPages ELSE currentPage + 1
  /\ UNCHANGED <<pdfFile, annotations, selectedTool, numPages, scale, selectedAnnotationId,
                 pdfDoc, pageDimensions, gestureVars, picks, nextId, placedOn>>
  /\ PlainEffects
  /\ last' = [op |-> "page"]
  /\ UNCHANGED exportVars

\* A zoom that rescales the stored positions by the change of the factor.
RescalingSetScale(s) ==
  /\ ~PickerOpen
  /\ pdfFile # NoDoc
  /\ scale' = s
  /\ annotations' = [i \in 1..Len(annotations) |->
                       [annotations[i] EXCEPT !.x = RMul(@, RDiv(s, scale)),
                                              !.y = RMul(@, RDiv(s, scale))]]
  /\ UNCHANGED <<pdfFile, selectedTool, currentPage, numPages,
                 selectedAnnotationId, pdfDoc, pageDimensions, gestureVars, picks, nextId,
                 placedOn>>
  /\ PlainEffects
  /\ last' = [op |-> "zoom"]
  /\ UNCHANGED exportVars

\* The zoom buttons and the zoom slider (page.tsx 259-267).
SetScale(s) ==
  /\ ~PickerOpen
  /\ pdfFile # NoDoc
  /\ scale' = s
  /\ UNCHANGED <<pdfFile, annotations, selectedTool, currentPage, numPages,
                 selectedAnnotationId, pdfDoc, pageDimensions, gestureVars, picks, nextId,
                 placedOn>>
  /\ PlainEffects
  /\ last' = [op |-> "zoom"]
  /\ UNCHANGED exportVars

ZoomOut == SetScale(RMax(Rat(1, 4), RSub(scale, Rat(1, 4))))

ZoomIn == SetScale(RMin(Num(3), RAdd(scale, Rat(1, 4))))

ZoomSlider(s) == RLe(Rat(1, 4), s) /\ RLe(s, Num(3)) /\ SetScale(s)

(***************************************************************************)
(* Document loading (pdf-viewer.tsx 93-136) and page rendering (140-179)   *)
(***************************************************************************)
OneLoad(l) == SetToBag({l})

\* reader.onload with a document pdf.js opens: the document, its page count and
\* the page correction, which tests the currentPage captured when the effect ran.
LoadDone(l) ==
  /\ BagIn(l, loads)
  /\ l.file \in GoodDocs
  /\ LET n == Len(DocPages(l.file))
     IN  /\ pdfDoc' = l.file
         /\ numPages' = n
         /\ currentPage' = IF l.page = 0 /\ n > 0 THEN 1
                           ELSE IF l.page > n THEN n
                           ELSE IF l.page < 1 /\ n > 0 THEN 1
                           ELSE currentPage
  /\ UNCHANGED <<pdfFile, annotations, selectedTool, scale, selectedAnnotationId,
                 pageDimensions, gestureVars, picks, nextId, placedOn>>
  /\ Effects(pdfLoadingError, loads (-) OneLoad(l), renders, canvas, FALSE, TRUE)
  /\ last' = [op |-> "other"]
  /\ UNCHANGED exportVars

\* reader.onload with a document that getDocument rejects (the catch, 124-130).
LoadFail(l) ==
  /\ BagIn(l, loads)
  /\ l.file \in BadDocs
  /\ pdfDoc' = NoDoc
  /\ numPages' = 0
  /\ currentPage' = 0
  /\ UNCHANGED <<pdfFile, annotations, selectedTool, scale, selectedAnnotationId,
                 pageDimensions, gestureVars, picks, nextId, placedOn>>
  /\ Effects("load", loads (-) OneLoad(l), renders, canvas, FALSE, FALSE)
  /\ last' = [op |-> "loadFailed"]
  /\ UNCHANGED exportVars

\* reader.onerror (132-135): the file could not be read.
LoadReadError(l) ==
  /\ BagIn(l, loads)
  /\ UNCHANGED <<pageVars, pdfDoc, pageDimensions, gestureVars, picks, nextId, placedOn>>
  /\ Effects("read", loads (-) OneLoad(l), renders, canvas, FALSE, FALSE)
  /\ last' = [op |-> "loadFailed"]
  /\ UNCHANGED exportVars

OneRender(r) == SetToBag({r})

\* canvas.width / canvas.height are integer attributes: the viewport size truncated.
CanvasOf(vp) == [width |-> RFloor(vp.width), height |-> RFloor(vp.height)]

\* renderPage after `await pdfDoc.getPage` (152-165): the canvas is sized to the
\* viewport; with the canvas gone (an error is shown) canvasRef.current is null
\* and the TypeError lands in the catch (174-178).
RenderGetPage(r) ==
  /\ BagIn(r, renders)
  /\ r.phase = "getPage"
  /\ UNCHANGED <<pageVars, pdfDoc, pageDimensions, gestureVars, picks, nextId, placedOn>>
  /\ IF CanvasMounted
       THEN Effects(pdfLoadingError, loads,
                    (renders (-) OneRender(r)) (+) OneRender([r EXCEPT !.phase = "render"]),
                    CanvasOf(Viewport(r.doc, r.page, r.scale)), FALSE, FALSE)
       ELSE Effects("render", loads, renders (-) OneRender(r), canvas, FALSE, FALSE)
  /\ last' = [op |-> IF CanvasMounted THEN "other" ELSE "renderFailed"]
  /\ UNCHANGED exportVars

\* renderPage after `await page.render(...)` (171-173).
RenderDone(r) ==
  /\ BagIn(r, renders)
  /\ r.phase = "render"
  /\ pageDimensions' = Viewport(r.doc, r.page, r.scale)
  /\ UNCHANGED <<pageVars, pdfDoc, gestureVars, picks, nextId, placedOn>>
  /\ Effects("", loads, renders (-) OneRender(r), canvas, FALSE, FALSE)
  /\ last' = [op |-> "other"]
  /\ UNCHANGED exportVars

\* getPage or render rejects (174-178).
RenderFail(r) ==
  /\ BagIn(r, renders)
  /\ UNCHANGED <<pageVars, pdfDoc, pageDimensions, gestureVars, picks, nextId, placedOn>>
  /\ Effects("render", loads, renders (-) OneRender(r), canvas, FALSE, FALSE)
  /\ last' = [op |-> "renderFailed"]
  /\ UNCHANGED exportVars

(***************************************************************************)
(* Geometry of the rendered annotation layer (pdf-viewer.tsx 499-566)      *)
(***************************************************************************)
\* The fraction of the extent, not scaled to percent.
Fraction(px, extent) == RDiv(px, extent)

\* (pixel / extent) * 100
Pct(px, extent) == RMul(RDiv(px, extent), Num(100))

\* The position as computed, without the clamp.
Unclamped(v) == v

\* Math.max(0, Math.min(v, 99.9))
Clamp(v) == RMax(Num(0), RMin(v, Rat(999, 10)))

\* What the layout engine makes of an image's width / height style against the
\* extent of the page box: a percentage of it, px as is, pt at 4/3 px, em at the
\* 16 px default font size; anything else is no CSS length and the box is sized
\* by its content, one of AutoSizes.
AutoSizes == {Num(24)}

CssLength(dim, v, ref) ==
  IF IsNaN(v) \/ RLt(v, Num(0)) THEN AutoSizes
  ELSE IF EndsWith(dim, <<"%">>) THEN {RMul(RDiv(v, Num(100)), ref)}
  ELSE IF EndsWith(dim, <<"p", "x">>) THEN {v}
  ELSE IF EndsWith(dim, <<"p", "t">>) THEN {RMul(v, Rat(4, 3))}
  ELSE IF EndsWith(dim, <<"e", "m">>) THEN {RMul(v, Num(16))}
  ELSE AutoSizes

CssSizes(dim, ref) == CssLength(dim, ParseFloat(dim), ref)

\* |cos| of a multiple of 15 degrees, to three decimals.
CosAbs(deg) ==
  LET t == deg % 180
      u == IF t > 90 THEN 180 - t ELSE t
  IN  CASE u = 0  -> Num(1)
        [] u = 15 -> Rat(966, 1000)
        [] u = 30 -> Rat(866, 1000)
        [] u = 45 -> Rat(707, 1000)
        [] u = 60 -> Rat(1, 2)
        [] u = 75 -> Rat(259, 1000)
        [] OTHER  -> Num(0)

SinAbs(deg) == CosAbs(deg + 90)

\* The heights the layout engine may give a text annotation's box: its two-row
\* <textarea> (507-535) and the border.
TextHeights == {Num(30), Num(40)}

\* typeof width === 'string' for the width of a text annotation: a number
\* (20, or what the panel's width field parsed) unless a resize move wrote a
\* percentage string over it (340).
IsPercentString(width) == ToString(width[Len(width)]) = ToString("%")

\* The widths the layout engine may give a text annotation's box (515): the
\* percentage of the page width; `${width}%` of a percentage string is no CSS
\* length, and the box takes the width of the <textarea> in it.
TextWidths(width) ==
  IF IsPercentString(width) THEN {Num(180)}
  ELSE {RMul(RDiv(width, Num(100)), pageDimensions.width)}

\* The CSS box of an annotation's element before rotation, the possible [w, h]:
\* an image's from its width / height styles (547-548), a text's from its width
\* in percent of the page (515) and the height of its content.
BoxSizes(a) ==
  IF a.type = "text"
    THEN {[w |-> w, h |-> h] : w \in TextWidths(a.width), h \in TextHeights}
    ELSE {[w |-> w, h |-> h] : w \in CssSizes(a.width, pageDimensions.width),
                              h \in CssSizes(a.height, pageDimensions.height)}

\* getBoundingClientRect() of an annotation's element: the axis-aligned box
\* around the element rotated about its top-left corner (transform, 505-506).
BoundingRects(a) ==
  {[width  |-> RAdd(RMul(b.w, CosAbs(a.rotation)), RMul(b.h, SinAbs(a.rotation))),
    height |-> RAdd(RMul(b.w, SinAbs(a.rotation)), RMul(b.h, CosAbs(a.rotation)))] :
     b \in BoxSizes(a)}

\* The annotation's element is in the DOM (441, 499).
Rendered(a) == LayerShown /\ a.page = currentPage

\* isSelected (500)
IsSelected(a) ==
  \/ selectedAnnotationId = a.id
  \/ draggingAnnotationId = a.id
  \/ resizeState # None /\ resizeState[1].annotationId = a.id

\* The image's four handles are shown (554-561).
HandlesShown(a) == a.type = "image" /\ IsSelected(a)

\* The border is 2 px wide on a selected annotation and 1 px otherwise (506).
BorderWidth(a) == IF IsSelected(a) THEN 2 ELSE 1

LeftPx(a) == RMul(RDiv(a.x, Num(100)), pageDimensions.width)

TopPx(a) == RMul(RDiv(a.y, Num(100)), pageDimensions.height)

Within(v, lo, hi) == RLe(lo, v) /\ RLe(v, hi)

\* A handle is a dot of 12 px (w-3 h-3, 469) set 4 px outside the padding edge
\* of its corner (450-462), which lies the selected border's 2 px inside the box.
HandleSize == 12

HandleOffset == 4

Handles == {"topLeft", "topRight", "bottomLeft", "bottomRight"}

\* v is on a handle's extent along one axis, the box spanning lo .. hi on that
\* axis and the handle sitting at its low or its high end.
OnHandleSpan(v, lo, hi, atLow) ==
  IF atLow
    THEN Within(v, RSub(lo, Num(HandleOffset - 2)), RAdd(lo, Num(HandleSize - (HandleOffset - 2))))
    ELSE Within(v, RSub(hi, Num(HandleSize - (HandleOffset - 2))), RAdd(hi, Num(HandleOffset - 2)))

\* The point (cx, cy), in pixels from the page box's top-left corner, is on the
\* given handle of an unrotated box b placed at (left, top).
AtCorner(handle, b, left, top, cx, cy) ==
  /\ OnHandleSpan(Num(cx), left, RAdd(left, b.w), handle \in {"topLeft", "bottomLeft"})
  /\ OnHandleSpan(Num(cy), top, RAdd(top, b.h), handle \in {"topLeft", "topRight"})

\* What of an unrotated image laid out as box b at (left, top) is at the point:
\* a handle, the image's own box ("body"), or nothing of it.
ImagePartsIn(a, b, left, top, cx, cy) ==
  IF HandlesShown(a) /\ \E hd \in Handles : AtCorner(hd, b, left, top, cx, cy)
    THEN {hd \in Handles : AtCorner(hd, b, left, top, cx, cy)}
  ELSE IF Within(Num(cx), left, RAdd(left, b.w)) /\ Within(Num(cy), top, RAdd(top, b.h))
    THEN {"body"}
  ELSE {"none"}

\* What of an unrotated text box of height h at (left, top) is at the point: its
\* border ("body"), the <textarea> filling it ("inner"), or nothing of it.
TextPartsIn(a, h, left, right, top, cx, cy) ==
  IF ~(Within(Num(cx), left, right) /\ Within(Num(cy), top, RAdd(top, h))) THEN {"none"}
  ELSE IF /\ Within(Num(cx), RAdd(left, Num(BorderWidth(a))), RSub(right, Num(BorderWidth(a))))
          /\ Within(Num(cy), RAdd(top, Num(BorderWidth(a))),
                    RSub(RAdd(top, h), Num(BorderWidth(a))))
    THEN {"inner"}
  ELSE {"body"}

\* The parts of annotation a's element the point (cx, cy) may be on.  A rotated
\* element is not hit-tested: the point may be on any part of it or off it.
Parts(a, cx, cy) ==
  IF ~Rendered(a) THEN {"none"}
  ELSE IF a.rotation # 0
    THEN {"none", "body"} \cup (IF a.type = "text" THEN {"inner"} ELSE { })
                          \cup (IF HandlesShown(a) THEN Handles ELSE { })
  ELSE IF a.type = "text"
    THEN UNION {TextPartsIn(a, b.h, LeftPx(a), RAdd(LeftPx(a), b.w), TopPx(a), cx, cy) :
                  b \in BoxSizes(a)}
  ELSE UNION {ImagePartsIn(a, b, LeftPx(a), TopPx(a), cx, cy) : b \in BoxSizes(a)}

\* What the pointer at (cx, cy) may be on, looking at the first i annotations of
\* the store: an element later in the store lies over the earlier ones, and the
\* page lies under them all.
RECURSIVE HitsFrom(_, _, _)
HitsFrom(i, cx, cy) ==
  IF i = 0 THEN {[id |-> 0, part |-> "page"]}
  ELSE UNION {IF part = "none" THEN HitsFrom(i - 1, cx, cy)
              ELSE {[id |-> annotations[i].id, part |-> part]} :
              part \in Parts(annotations[i], cx, cy)}

HitsAt(cx, cy) == HitsFrom(Len(annotations), cx, cy)

(***************************************************************************)
(* The pointer interaction machine (pdf-viewer.tsx 196-370)                *)
(***************************************************************************)
\* handleAnnotationMouseDown (196-217): a mouse button goes down on the body of
\* annotation id at (cx, cy).  The handler does not look at the machine's state.
HandleAnnotationMouseDown(id, cx, cy) ==
  /\ ~PickerOpen
  /\ id \in Ids(annotations)
  /\ LET a == Find(annotations, id)
     IN  /\ [id |-> id, part |-> "body"] \in HitsAt(cx, cy)
         /\ selectedAnnotationId' = id
         /\ dragStartOffset' =
              Some([x |-> RSub(Pct(Num(cx), Num(canvas.width)), a.x),
                    y |-> RSub(Pct(Num(cy), Num(canvas.height)), a.y)])
         /\ draggingAnnotationId' = id
         /\ grab' = Some([id |-> id, cx |-> cx, cy |-> cy, x |-> a.x, y |-> a.y,
                           extent |-> canvas])
         /\ last' = [op |-> "bodyDown", id |-> id,
                     idle |-> draggingAnnotationId = 0 /\ resizeState = None]
  /\ UNCHANGED <<pdfFile, annotations, selectedTool, currentPage, numPages, scale, pdfDoc,
                 pageDimensions, resizeState, picks, nextId, placedOn>>
  /\ PlainEffects
  /\ UNCHANGED exportVars

\* onMouseDown of a text annotation's <textarea> (524): a mouse button goes down
\* inside the text box of annotation id; the event is stopped there and never
\* reaches handleAnnotationMouseDown on the element around it.
HandleTextareaMouseDown(id, cx, cy) ==
  /\ ~PickerOpen
  /\ [id |-> id, part |-> "inner"] \in HitsAt(cx, cy)
  /\ UNCHANGED <<pageVars, pdfDoc, pageDimensions, gestureVars, picks, nextId, placedOn>>
  /\ PlainEffects
  /\ last' = [op |-> "textareaDown", id |-> id]
  /\ UNCHANGED exportVars

\* A drag move that adds the pointer's displacement since the move before to
\* the annotation's position.
HandleDragMoveRelative(cx, cy) ==
  /\ draggingAnnotationId # 0
  /\ LET live == /\ dragStartOffset # None
                 /\ CanvasMounted
                 /\ draggingAnnotationId \in Ids(annotations)
                 /\ grab # None
         currentAnnotation == Find(annotations, draggingAnnotationId)
         fromX == IF last.op = "dragMove" THEN last.cx ELSE grab[1].cx
         fromY == IF last.op = "dragMove" THEN last.cy ELSE grab[1].cy
         newX == Clamp(RAdd(currentAnnotation.x, Pct(Num(cx - fromX), Num(canvas.width))))
         newY == Clamp(RAdd(currentAnnotation.y, Pct(Num(cy - fromY), Num(canvas.height))))
     IN  /\ annotations' = IF live
                             THEN UpdateStore(annotations,
                                              [currentAnnotation EXCEPT !.x = newX, !.y = newY])
                             ELSE annotations
         /\ last' = [op |-> "dragMove", cx |-> cx, cy |-> cy, applied |-> live,
                     moved |-> last.op = "dragMove" /\ <<last.cx, last.cy>> # <<cx, cy>>]
  /\ UNCHANGED <<pdfFile, selectedTool, currentPage, numPages, scale, selectedAnnotationId,
                 pdfDoc, pageDimensions, gestureVars, picks, nextId, placedOn>>
  /\ PlainEffects
  /\ UNCHANGED exportVars

\* The document's mousemove listener while a drag is active (353-361):
\* handleDragMove (219-241).
HandleDragMove(cx, cy) ==
  /\ draggingAnnotationId # 0
  /\ LET live == /\ dragStartOffset # None
                 /\ CanvasMounted
                 /\ draggingAnnotationId \in Ids(annotations)
         currentAnnotation == Find(annotations, draggingAnnotationId)
         newX == Clamp(RSub(Pct(Num(cx), Num(canvas.width)), dragStartOffset[1].x))
         newY == Clamp(RSub(Pct(Num(cy), Num(canvas.height)), dragStartOffset[1].y))
     IN  /\ annotations' = IF live
                             THEN UpdateStore(annotations,
                                              [currentAnnotation EXCEPT !.x = newX, !.y = newY])
                             ELSE annotations
         /\ last' = [op |-> "dragMove", cx |-> cx, cy |-> cy, applied |-> live,
                     moved |-> last.op = "dragMove" /\ <<last.cx, last.cy>> # <<cx, cy>>]
  /\ UNCHANGED <<pdfFile, selectedTool, currentPage, numPages, scale, selectedAnnotationId,
                 pdfDoc, pageDimensions, gestureVars, picks, nextId, placedOn>>
  /\ PlainEffects
  /\ UNCHANGED exportVars

\* The document's mouseup listener while a drag is active: handleDragEnd (243-248).
HandleDragEnd ==
  /\ draggingAnnotationId # 0
  /\ draggingAnnotationId' = 0
  /\ dragStartOffset' = None
  /\ grab' = None
  /\ UNCHANGED <<pageVars, pdfDoc, pageDimensions, resizeState, picks, nextId, placedOn>>
  /\ PlainEffects
  /\ last' = [op |-> "mouseUp", wasDragging |-> TRUE, wasResizing |-> resizeState # None]
  /\ UNCHANGED exportVars

\* querySelector(`[data-annotation-id="..."]`) (259): the first element of the
\* layer that carries the id, the layer showing the store's annotations of the
\* current page in store order (441, 499).
QueriedElement(id) ==
  annotations[CHOOSE i \in 1..Len(annotations) :
                /\ annotations[i].id = id /\ Rendered(annotations[i])
                /\ \A j \in 1..(i - 1) :
                     ~(annotations[j].id = id /\ Rendered(annotations[j]))]

\* handleResizeMouseDown (250-276): a mouse button goes down at (cx, cy) on a
\* handle of an image whose id is `id`.  The handler does not look at the
\* machine's state either; the pixel size it captures is that of the element the
\* id finds.
HandleResizeMouseDown(id, handle, cx, cy) ==
  /\ ~PickerOpen
  /\ [id |-> id, part |-> handle] \in HitsAt(cx, cy)
  /\ \E i \in 1..Len(annotations) :
       /\ annotations[i].id = id
       /\ annotations[i].type = "image"
       /\ handle \in Parts(annotations[i], cx, cy)
       /\ selectedAnnotationId' = id
       /\ \E rect \in BoundingRects(QueriedElement(id)) :
            resizeState' = Some([annotationId |-> id,
                                 handle |-> handle,
                                 initialAnnotation |-> annotations[i],
                                 initialPageDimensions |-> pageDimensions,
                                 startX |-> cx,
                                 startY |-> cy,
                                 initialPixelWidth |-> rect.width,
                                 initialPixelHeight |-> rect.height,
                                 initialAnnotationXPercent |-> annotations[i].x,
                                 initialAnnotationYPercent |-> annotations[i].y])
       /\ last' = [op |-> "handleDown", id |-> id,
                   idle |-> draggingAnnotationId = 0 /\ resizeState = None]
  /\ UNCHANGED <<pdfFile, annotations, selectedTool, currentPage, numPages, scale, pdfDoc,
                 pageDimensions, draggingAnnotationId, dragStartOffset, grab, picks, nextId,
                 placedOn>>
  /\ PlainEffects
  /\ UNCHANGED exportVars

\* handle.includes('Right') and the like (306-317).
IncludesRight(handle) == handle \in {"topRight", "bottomRight"}

IncludesLeft(handle) == handle \in {"topLeft", "bottomLeft"}

IncludesBottom(handle) == handle \in {"bottomLeft", "bottomRight"}

IncludesTop(handle) == handle \in {"topLeft", "topRight"}

\* const minPixelSize = 20 (324)
MinPixelSize == 20

\* A resize that follows the pointer with no floor on the size.
UnflooredResizeGeometry(rs, cx, cy) ==
  LET w == IF IncludesLeft(rs.handle) THEN RSub(rs.initialPixelWidth, Num(cx - rs.startX))
           ELSE RAdd(rs.initialPixelWidth, Num(cx - rs.startX))
      h == IF IncludesTop(rs.handle) THEN RSub(rs.initialPixelHeight, Num(cy - rs.startY))
           ELSE RAdd(rs.initialPixelHeight, Num(cy - rs.startY))
  IN  [x |-> rs.initialAnnotationXPercent,
       y |-> rs.initialAnnotationYPercent,
       width  |-> Pct(w, rs.initialPageDimensions.width),
       height |-> Pct(h, rs.initialPageDimensions.height)]

\* The geometry handleResizeMouseMove computes from the captured state rs and the
\* pointer at (cx, cy) (298-334): [x, y, width, height], sizes in percent.
ResizeGeometry(rs, cx, cy) ==
  LET deltaX == Num(cx - rs.startX)
      deltaY == Num(cy - rs.startY)
      pw == rs.initialPageDimensions.width
      ph == rs.initialPageDimensions.height
      w0 == IF IncludesLeft(rs.handle) THEN RSub(rs.initialPixelWidth, deltaX)
            ELSE IF IncludesRight(rs.handle) THEN RAdd(rs.initialPixelWidth, deltaX)
            ELSE rs.initialPixelWidth
      h0 == IF IncludesTop(rs.handle) THEN RSub(rs.initialPixelHeight, deltaY)
            ELSE IF IncludesBottom(rs.handle) THEN RAdd(rs.initialPixelHeight, deltaY)
            ELSE rs.initialPixelHeight
      x0 == IF IncludesLeft(rs.handle)
              THEN RAdd(rs.initialAnnotationXPercent, Pct(deltaX, pw))
              ELSE rs.initialAnnotationXPercent
      y0 == IF IncludesTop(rs.handle)
              THEN RAdd(rs.initialAnnotationYPercent, Pct(deltaY, ph))
              ELSE rs.initialAnnotationYPercent
      newPixelWidth  == RMax(w0, Num(MinPixelSize))
      newPixelHeight == RMax(h0, Num(MinPixelSize))
  IN  [x |-> RMax(Num(0), RMin(x0, RSub(Rat(999, 10), Pct(newPixelWidth, pw)))),
       y |-> RMax(Num(0), RMin(y0, RSub(Rat(999, 10), Pct(newPixelHeight, ph)))),
       width  |-> Pct(newPixelWidth, pw),
       height |-> Pct(newPixelHeight, ph)]

\* A size written in pixels.
PixelString(r) == ToFixed2(r) \o <<"p", "x">>

\* `${percent.toFixed(2)}%` (340-341)
PercentString(r) == ToFixed2(r) \o <<"%">>

\* The document's mousemove listener while a resize is active and no drag is
\* (353-369): handleResizeMouseMove (278-344).
HandleResizeMouseMove(cx, cy) ==
  /\ draggingAnnotationId = 0
  /\ resizeState # None
  /\ LET rs   == resizeState[1]
         live == /\ RLt(Num(0), pageDimensions.width) \/ RLt(pageDimensions.width, Num(0))
                 /\ RLt(Num(0), pageDimensions.height) \/ RLt(pageDimensions.height, Num(0))
                 /\ rs.annotationId \in Ids(annotations)
         currentAnnotation == Find(annotations, rs.annotationId)
         g == ResizeGeometry(rs, cx, cy)
     IN  /\ annotations' = IF live
                             THEN UpdateStore(annotations,
                                    [currentAnnotation EXCEPT !.x = g.x, !.y = g.y,
                                                              !.width = PercentString(g.width),
                                                              !.height = PercentString(g.height)])
                             ELSE annotations
         /\ last' = [op |-> "resizeMove", cx |-> cx, cy |-> cy, applied |-> live,
                     moved |-> last.op = "resizeMove" /\ <<last.cx, last.cy>> # <<cx, cy>>]
  /\ UNCHANGED <<pdfFile, selectedTool, currentPage, numPages, scale, selectedAnnotationId,
                 pdfDoc, pageDimensions, gestureVars, picks, nextId, placedOn>>
  /\ PlainEffects
  /\ UNCHANGED exportVars

\* The document's mouseup listener while a resize is active and no drag is:
\* handleResizeMouseUp (346-350).
HandleResizeMouseUp ==
  /\ draggingAnnotationId = 0
  /\ resizeState # None
  /\ resizeState' = None
  /\ UNCHANGED <<pageVars, pdfDoc, pageDimensions, draggingAnnotationId, dragStartOffset,
                 grab, picks, nextId, placedOn>>
  /\ PlainEffects
  /\ last' = [op |-> "mouseUp", wasDragging |-> FALSE, wasResizing |-> TRUE]
  /\ UNCHANGED exportVars

\* The listener effect (353-370): the handlers registered on the document after
\* the effect ran for the state.  With a drag active the effect returns before
\* it looks at resizeState (354-361).
Listeners ==
  IF draggingAnnotationId # 0 THEN {"handleDragMove", "handleDragEnd"}
  ELSE IF resizeState # None THEN {"handleResizeMouseMove", "handleResizeMouseUp"}
  ELSE {}

(***************************************************************************)
(* Placement (pdf-viewer.tsx 373-439)                                      *)
(***************************************************************************)
InsideCanvas(cx, cy) ==
  CanvasMounted /\ 0 <= cx /\ cx <= canvas.width /\ 0 <= cy /\ cy <= canvas.height

\* A click at (cx, cy) lands on `target`: the viewer's own background, the
\* canvas, an annotation's box or a resize handle.  A click in a <textarea> stops
\* there (524).
Hits(target, cx, cy) ==
  CASE target = "viewer" -> ~InsideCanvas(cx, cy) /\ [id |-> 0, part |-> "page"] \in HitsAt(cx, cy)
    [] target = "canvas" -> InsideCanvas(cx, cy) /\ [id |-> 0, part |-> "page"] \in HitsAt(cx, cy)
    [] target = "annotation" -> \E h \in HitsAt(cx, cy) : h.part = "body"
    [] OTHER -> \E h \in HitsAt(cx, cy) : h.part \in Handles

\* The defaults of a placed text annotation (398-410).
NewText(page, x, y) ==
  [type |-> "text", page |-> page, x |-> x, y |-> y, width |-> Num(20), height |-> Num(5),
   text |-> "New Text", fontSize |-> 12, fontFamily |-> "PT Sans", color |-> "#000000",
   rotation |-> 0]

\* The defaults of a placed image annotation (421-431).
NewImage(page, x, y, src) ==
  [type |-> "image", page |-> page, x |-> x, y |-> y,
   width |-> <<"2", "5", "%">>, height |-> <<"1", "5", "%">>,
   src |-> src, alt |-> "User image", rotation |-> 0]

\* A range test that lets every position through.
NeverOutOfRange(xPercent, yPercent) == FALSE

\* xPercent < 0 || xPercent > 100 || yPercent < 0 || yPercent > 100 (395)
OutOfRange(xPercent, yPercent) ==
  \/ RLt(xPercent, Num(0)) \/ RLt(Num(100), xPercent)
  \/ RLt(yPercent, Num(0)) \/ RLt(Num(100), yPercent)

OnePick(p) == SetToBag({p})

\* A deselection that does not look at the tool.
DeselectsWithTool(target) == target \in {"viewer", "canvas"}

\* (target === viewerRef.current || target === canvasRef.current) && !selectedTool
\* && !target.dataset.resizeHandle (378)
Deselects(target) == target \in {"viewer", "canvas"} /\ selectedTool = "none"

\* handleViewerClick (373-439): a click on `target` at (cx, cy), with at most
\* `pending` image placements under way after it.
HandleViewerClickWithin(pending, target, cx, cy) ==
  /\ ~PickerOpen
  /\ Hits(target, cx, cy)
  /\ LET busy     == draggingAnnotationId # 0 \/ resizeState # None
         deselect == ~busy /\ Deselects(target)
         xPercent == Pct(Num(cx), Num(canvas.width))
         yPercent == Pct(Num(cy), Num(canvas.height))
         place    == /\ ~busy
                     /\ selectedTool # "none"
                     /\ ~(pageDimensions.width = Num(0)) /\ ~(pageDimensions.height = Num(0))
                     /\ pdfDoc # NoDoc
                     /\ target # "handle"
                     /\ CanvasMounted
                     /\ ~OutOfRange(xPercent, yPercent)
     IN  /\ IF place /\ selectedTool = "text"
              THEN /\ AddAnnotation(NewText(currentPage, Clamp(xPercent), Clamp(yPercent)), pdfDoc)
                   /\ UNCHANGED picks
            ELSE IF place
              THEN /\ picks' = picks (+) OnePick([page |-> currentPage, x |-> Clamp(xPercent),
                                                  y |-> Clamp(yPercent), doc |-> pdfDoc,
                                                  stage |-> "picker", src |-> ""])
                   /\ BagCardinality(picks') <= pending
                   /\ UNCHANGED <<annotations, selectedTool, selectedAnnotationId, nextId, placedOn>>
            ELSE /\ selectedAnnotationId' = IF deselect THEN 0 ELSE selectedAnnotationId
                 /\ UNCHANGED <<annotations, selectedTool, picks, nextId, placedOn>>
         /\ last' = [op |-> "click", target |-> target, busy |-> busy, placed |-> place,
                     tool |-> selectedTool, was |-> selectedAnnotationId, cx |-> cx, cy |-> cy,
                     inRange |-> CanvasMounted /\ Within(xPercent, Num(0), Num(100))
                                               /\ Within(yPercent, Num(0), Num(100))]
  /\ UNCHANGED <<pdfFile, currentPage, numPages, scale, pdfDoc, pageDimensions, gestureVars>>
  /\ PlainEffects
  /\ UNCHANGED exportVars

HandleViewerClick(target, cx, cy) == HandleViewerClickWithin(MaxPicks, target, cx, cy)

\* The image formats the picker (accept "image/*") can hand over, as the data
\* URL FileReader.readAsDataURL makes of them.
ImageSources == {"data:image/png", "data:image/jpeg", "data:image/gif"}

\* fileInput.onchange with a chosen file (416-435): the read starts.
ImagePickChoose(p, src) ==
  /\ BagIn(p, picks)
  /\ p.stage = "picker"
  /\ picks' = (picks (-) OnePick(p)) (+) OnePick([p EXCEPT !.stage = "reading", !.src = src])
  /\ UNCHANGED <<pageVars, pdfDoc, pageDimensions, gestureVars, nextId, placedOn>>
  /\ PlainEffects
  /\ last' = [op |-> "other"]
  /\ UNCHANGED exportVars

\* The dialog is dismissed: onchange never fires.
ImagePickCancel(p) ==
  /\ BagIn(p, picks)
  /\ p.stage = "picker"
  /\ picks' = picks (-) OnePick(p)
  /\ UNCHANGED <<pageVars, pdfDoc, pageDimensions, gestureVars, nextId, placedOn>>
  /\ PlainEffects
  /\ last' = [op |-> "other"]
  /\ UNCHANGED exportVars

\* reader.onload (420-433): the image annotation is added with the page and the
\* click position the handler captured.
ImageReadDone(p) ==
  /\ BagIn(p, picks)
  /\ p.stage = "reading"
  /\ picks' = picks (-) OnePick(p)
  /\ AddAnnotation(NewImage(p.page, p.x, p.y, p.src), p.doc)
  /\ UNCHANGED <<pdfFile, currentPage, numPages, scale, pdfDoc, pageDimensions, gestureVars>>
  /\ PlainEffects
  /\ last' = [op |-> "imageAdded"]
  /\ UNCHANGED exportVars

\* reader.onload (420-433) when addAnnotation's generator repeats the id of an
\* earlier call.
ImageReadDoneRepeating(p, id) ==
  /\ BagIn(p, picks)
  /\ p.stage = "reading"
  /\ picks' = picks (-) OnePick(p)
  /\ AddAnnotationRepeating(NewImage(p.page, p.x, p.y, p.src), p.doc, id)
  /\ UNCHANGED <<pdfFile, currentPage, numPages, scale, pdfDoc, pageDimensions, gestureVars>>
  /\ PlainEffects
  /\ last' = [op |-> "imageAdded"]
  /\ UNCHANGED exportVars

(***************************************************************************)
(* Field edits (annotation-sidebar.tsx 49-88, 110-139; pdf-viewer.tsx 523) *)
(***************************************************************************)
EditField(id, type, field, value) ==
  /\ ~PickerOpen
  /\ id \in Ids(annotations)
  /\ Find(annotations, id).type = type
  /\ annotations' = UpdateStore(annotations, [Find(annotations, id) EXCEPT ![field] = value])
  /\ UNCHANGED <<pdfFile, selectedTool, currentPage, numPages, scale, selectedAnnotationId,
                 pdfDoc, pageDimensions, gestureVars, picks, nextId, placedOn>>
  /\ PlainEffects
  /\ last' = [op |-> "edit", id |-> id, field |-> field]
  /\ UNCHANGED exportVars

\* onChange of the content inputs: { ...anno, text: e.target.value }
EditText(id, value) == EditField(id, "text", "text", value)

\* { ...anno, width: parseFloat(e.target.value) || 20 }, num being the parsed value
EditTextWidth(id, num) ==
  EditField(id, "text", "width", IF IsNaN(num) \/ num = Num(0) THEN Num(20) ELSE num)

\* { ...anno, fontSize: parseInt(e.target.value) || 12 }, num being the parsed
\* value: an integer or NaN
EditFontSize(id, num) ==
  EditField(id, "text", "fontSize", IF IsNaN(num) \/ num = Num(0) THEN 12 ELSE num[1])

\* { ...anno, width: e.target.value || "25%" }
EditImageWidth(id, value) ==
  EditField(id, "image", "width", IF value = << >> THEN <<"2", "5", "%">> ELSE value)

\* { ...anno, height: e.target.value || "15%" }
EditImageHeight(id, value) ==
  EditField(id, "image", "height", IF value = << >> THEN <<"1", "5", "%">> ELSE value)

(***************************************************************************)
(* Export (page.tsx 63-202)                                                *)
(***************************************************************************)
\* Exports under way at once.
MaxExports == 1

\* A width resolution that takes 1em for the 16 px of the screen.
WidthWithScreenEm(width, num, pageWidth) ==
  IF IsNaN(num) THEN RMul(Rat(25, 100), pageWidth)
  ELSE IF EndsWith(width, <<"%">>) THEN RMul(RDiv(num, Num(100)), pageWidth)
  ELSE IF EndsWith(width, <<"e", "m">>) THEN RMul(num, Num(16))
  ELSE num

\* finalAnnoWidthInPoints (page.tsx 110-128), num being parseFloat(width).
FinalAnnoWidthInPoints(width, num, pageWidth) ==
  IF EndsWith(width, <<"%">>)
    THEN IF IsNaN(num) THEN RMul(Rat(25, 100), pageWidth)
         ELSE RMul(RDiv(num, Num(100)), pageWidth)
  ELSE IF EndsWith(width, <<"p", "x">>) THEN IF IsNaN(num) THEN Num(100) ELSE num
  ELSE IF EndsWith(width, <<"p", "t">>) THEN IF IsNaN(num) THEN Num(100) ELSE num
  ELSE IF EndsWith(width, <<"e", "m">>) THEN IF IsNaN(num) THEN Num(100) ELSE RMul(num, Num(12))
  ELSE IF ~IsNaN(num) THEN num
  ELSE RMul(Rat(25, 100), pageWidth)

\* finalAnnoHeightInPoints (page.tsx 130-148), num being parseFloat(height).
FinalAnnoHeightInPoints(height, num, pageHeight) ==
  IF EndsWith(height, <<"%">>)
    THEN IF IsNaN(num) THEN RMul(Rat(15, 100), pageHeight)
         ELSE RMul(RDiv(num, Num(100)), pageHeight)
  ELSE IF EndsWith(height, <<"p", "x">>) THEN IF IsNaN(num) THEN Num(75) ELSE num
  ELSE IF EndsWith(height, <<"p", "t">>) THEN IF IsNaN(num) THEN Num(75) ELSE num
  ELSE IF EndsWith(height, <<"e", "m">>) THEN IF IsNaN(num) THEN Num(75) ELSE RMul(num, Num(12))
  ELSE IF ~IsNaN(num) THEN num
  ELSE RMul(Rat(15, 100), pageHeight)

\* A data URL browsers label image/png whose bytes are no PNG (a renamed or a
\* truncated file): embedPng rejects it.
DamagedSources == {"data:image/png,damaged"}

\* The embedder the source's format selects (page.tsx 165-173): src.includes('png'),
\* then 'jpeg' or 'jpg', else none and the annotation is skipped.
Embedder(src) ==
  CASE src \in {"data:image/png", "data:image/png,damaged"} -> "png"
    [] src = "data:image/jpeg" -> "jpg"
    [] OTHER                   -> "none"

\* What the inner try block (page.tsx 152-185) does with the source: "drawn",
\* "unsupported" (the continue at 172) or "failed" (the catch at 182).
Embedding(src) ==
  IF Embedder(src) = "none" THEN "unsupported"
  ELSE IF src \in DamagedSources THEN "failed"
  ELSE "drawn"

\* Texts the Helvetica standard font cannot encode: drawText throws on them.
UnencodableTexts == {"non-Latin text"}

\* nominalTextHeightForYCalc (page.tsx 91)
NominalTextHeightForYCalc(fontSize) == RMul(Num(fontSize), Rat(3, 2))

\* annoYBase (page.tsx 79)
AnnoYBase(y, pageHeight) == RMul(RDiv(y, Num(100)), pageHeight)

\* A Y that is left top-down: the offset from the top of the page.
TopDownY(pageHeight, annoYBase, h) == annoYBase

\* annoTextY (page.tsx 92) and annoImgY (page.tsx 150): the flipped Y of a box of
\* height h.
FlippedY(pageHeight, annoYBase, h) == RSub(RSub(pageHeight, annoYBase), h)

\* A text drawn at the foot of the box of its stored height, as an image is at
\* the foot of the box of its resolved height.
DrawTextInStoredBox(a, pageWidth, pageHeight) ==
  [op |-> "drawText", id |-> a.id, page |-> a.page, text |-> a.text,
   x |-> RMul(RDiv(a.x, Num(100)), pageWidth),
   y |-> FlippedY(pageHeight, AnnoYBase(a.y, pageHeight),
                  RMul(RDiv(a.height, Num(100)), pageHeight)),
   size |-> a.fontSize,
   lineHeight |-> RMul(Num(a.fontSize), Rat(12, 10)),
   maxWidth |-> RMul(RDiv(a.width, Num(100)), pageWidth),
   rotate |-> a.rotation]

\* page.drawText's options (page.tsx 78-104) on a page of pageWidth x pageHeight
\* points (the colour is left out).
DrawText(a, pageWidth, pageHeight) ==
  [op |-> "drawText", id |-> a.id, page |-> a.page, text |-> a.text,
   x |-> RMul(RDiv(a.x, Num(100)), pageWidth),
   y |-> RSub(RAdd(FlippedY(pageHeight, AnnoYBase(a.y, pageHeight),
                            NominalTextHeightForYCalc(a.fontSize)),
                   NominalTextHeightForYCalc(a.fontSize)),
              Num(a.fontSize)),
   size |-> a.fontSize,
   lineHeight |-> RMul(Num(a.fontSize), Rat(12, 10)),
   maxWidth |-> RMul(RDiv(a.width, Num(100)), pageWidth),
   rotate |-> a.rotation]

\* page.drawImage's options (page.tsx 78-79, 150, 175-181), h being the height in
\* points.
DrawImageAt(a, h, pageWidth, pageHeight) ==
  [op |-> "drawImage", id |-> a.id, page |-> a.page,
   x |-> RMul(RDiv(a.x, Num(100)), pageWidth),
   y |-> FlippedY(pageHeight, AnnoYBase(a.y, pageHeight), h),
   width |-> FinalAnnoWidthInPoints(a.width, ParseFloat(a.width), pageWidth),
   height |-> h,
   rotate |-> a.rotation]

DrawImage(a, pageWidth, pageHeight) ==
  DrawImageAt(a, FinalAnnoHeightInPoints(a.height, ParseFloat(a.height), pageHeight),
              pageWidth, pageHeight)

\* A loop that skips an image whose width or height parseFloat cannot read.
DrawnUnlessUnparseable(doc, a) ==
  IF a.type = "text"
    THEN <<DrawText(a, Num(DocPages(doc)[a.page][1]), Num(DocPages(doc)[a.page][2]))>>
  ELSE IF Embedding(a.src) # "drawn" \/ IsNaN(ParseFloat(a.width)) \/ IsNaN(ParseFloat(a.height))
    THEN << >>
  ELSE <<DrawImage(a, Num(DocPages(doc)[a.page][1]), Num(DocPages(doc)[a.page][2]))>>

\* What one turn of the loop (page.tsx 74-187) draws for annotation a on its page
\* of document doc: nothing for an image that is skipped.
Drawn(doc, a) ==
  IF a.type = "text"
    THEN <<DrawText(a, Num(DocPages(doc)[a.page][1]), Num(DocPages(doc)[a.page][2]))>>
  ELSE IF Embedding(a.src) # "drawn" THEN << >>
  ELSE <<DrawImage(a, Num(DocPages(doc)[a.page][1]), Num(DocPages(doc)[a.page][2]))>>

\* A loop that goes through the pages of the document and, for each, through the
\* annotations of that page.
RECURSIVE DrawnOnPage(_, _, _)
DrawnOnPage(doc, store, p) ==
  IF store = << >> THEN << >>
  ELSE (IF Head(store).page = p THEN Drawn(doc, Head(store)) ELSE << >>)
         \o DrawnOnPage(doc, Tail(store), p)

RECURSIVE DrawsFromPage(_, _, _)
DrawsFromPage(doc, store, p) ==
  IF p > Len(DocPages(doc)) THEN << >>
  ELSE DrawnOnPage(doc, store, p) \o DrawsFromPage(doc, store, p + 1)

DrawsByPage(doc, store) == DrawsFromPage(doc, store, 1)

\* The loop `for (const anno of annotations)` (page.tsx 74-187): one turn after
\* the other, each turn's awaits (160-161, 166, 168) over before the next begins.
RECURSIVE Draws(_, _)
Draws(doc, store) ==
  IF store = << >> THEN << >> ELSE Drawn(doc, Head(store)) \o Draws(doc, Tail(store))

\* The final else of a dimension's resolution (page.tsx 125-127, 145-147): no
\* recognised suffix and parseFloat gives NaN, num being parseFloat(dim).
Unsupported(dim, num) ==
  /\ ~EndsWith(dim, <<"%">>) /\ ~EndsWith(dim, <<"p", "x">>)
  /\ ~EndsWith(dim, <<"p", "t">>) /\ ~EndsWith(dim, <<"e", "m">>)
  /\ IsNaN(num)

Toast(title, description, id) == [title |-> title, description |-> description, id |-> id]

\* The toasts one turn of the loop raises for annotation a (page.tsx 126, 146,
\* 171, 184), in the order of the code.
Toasts(a) ==
  IF a.type = "text" THEN << >>
  ELSE (IF Unsupported(a.width, ParseFloat(a.width))
          THEN <<Toast("Image Warning", "Unsupported width unit", a.id)>> ELSE << >>)
       \o (IF Unsupported(a.height, ParseFloat(a.height))
             THEN <<Toast("Image Warning", "Unsupported height unit", a.id)>> ELSE << >>)
       \o (CASE Embedding(a.src) = "unsupported"
                  -> <<Toast("Image Error", "Unsupported image type", a.id)>>
             [] Embedding(a.src) = "failed"
                  -> <<Toast("Image Error", "Could not embed image", a.id)>>
             [] OTHER -> << >>)

\* A loop whose turn also throws when the image cannot be embedded.
ThrowsOnImageToo(doc, a) ==
  \/ a.page \notin 1..Len(DocPages(doc))
  \/ a.type = "text" /\ a.text \in UnencodableTexts
  \/ a.type = "image" /\ Embedding(a.src) # "drawn"

\* A turn of the loop that throws outside the inner try block: getPage on a page
\* the document does not have (page.tsx 75), drawText on a text the font cannot
\* encode (page.tsx 95).
Throws(doc, a) ==
  \/ a.page \notin 1..Len(DocPages(doc))
  \/ a.type = "text" /\ a.text \in UnencodableTexts

\* The toasts of the loop up to the turn that throws, if one does.
RECURSIVE LoopToasts(_, _)
LoopToasts(doc, store) ==
  IF store = << >> \/ Throws(doc, Head(store)) THEN << >>
  ELSE Toasts(Head(store)) \o LoopToasts(doc, Tail(store))

\* What the environment does to an export: nothing, PDFDocument.load rejecting
\* the bytes (page.tsx 70-71), or pdfDoc.save rejecting (page.tsx 189).
ExportFaults == {"none", "load", "save"}

\* An outcome whose download starts whether or not the output was serialized.
ExportOfDownloadingAnyway(file, store, fault) ==
  [ok |-> file \in GoodDocs /\ fault # "load", file |-> file, draws |-> << >>,
   downloaded |-> TRUE,
   toasts |-> <<Toast("Download Started", "Your annotated PDF", 0)>>]

\* The outcome of handleDownload's try block (page.tsx 69-201) for the file and
\* the annotations it captured: a throw ends in the catch, nothing is downloaded
\* and "Download Failed" is shown; else the link is clicked with the document as
\* drawn and "Download Started" is shown.
ExportOf(file, store, fault) ==
  IF file \notin GoodDocs \/ fault = "load"
    THEN [ok |-> FALSE, file |-> file, draws |-> << >>, downloaded |-> FALSE,
          toasts |-> <<Toast("Download Failed", "Could not generate", 0)>>]
  ELSE IF (\E i \in 1..Len(store) : Throws(file, store[i])) \/ fault = "save"
    THEN [ok |-> FALSE, file |-> file, draws |-> << >>, downloaded |-> FALSE,
          toasts |-> LoopToasts(file, store)
                       \o <<Toast("Download Failed", "Could not generate", 0)>>]
  ELSE [ok |-> TRUE, file |-> file, draws |-> Draws(file, store), downloaded |-> TRUE,
        toasts |-> LoopToasts(file, store)
                     \o <<Toast("Download Started", "Your annotated PDF", 0)>>]

\* The Download button (page.tsx 245): handleDownload starts with the file and
\* the annotations of the render it was created in (page.tsx 63-70).
HandleDownload ==
  /\ ~PickerOpen
  /\ pdfFile # NoDoc
  /\ exports' = exports (+) SetToBag({[file |-> pdfFile, annotations |-> annotations]})
  /\ BagCardinality(exports') <= MaxExports
  /\ UNCHANGED <<pageVars, pdfDoc, pageDimensions, gestureVars, picks, download, nextId,
                 placedOn>>
  /\ PlainEffects
  /\ last' = [op |-> "download", hadFile |-> TRUE]

\* handleDownload called with no file chosen (page.tsx 64-67): the toast and the
\* return. The Download button is disabled in this state (page.tsx 245), so only
\* a call of the handler itself gets here.
HandleDownloadNoFile ==
  /\ ~PickerOpen
  /\ pdfFile = NoDoc
  /\ download' = Some([ok |-> FALSE, file |-> NoDoc, draws |-> << >>, downloaded |-> FALSE,
                       toasts |-> <<Toast("No PDF", "Please upload a PDF file first", 0)>>])
  /\ UNCHANGED <<pageVars, pdfDoc, pageDimensions, gestureVars, picks, exports, nextId,
                 placedOn>>
  /\ PlainEffects
  /\ last' = [op |-> "download", hadFile |-> FALSE]

\* An end of export that drops from the store what a failed export captured.
ExportDoneDropping(e, fault) ==
  /\ BagIn(e, exports)
  /\ exports' = exports (-) SetToBag({e})
  /\ download' = Some(ExportOf(e.file, e.annotations, fault))
  /\ annotations' = IF download'[1].ok THEN annotations ELSE << >>
  /\ UNCHANGED <<pdfFile, selectedTool, currentPage, numPages, scale, selectedAnnotationId,
                 pdfDoc, pageDimensions, gestureVars, picks, nextId, placedOn>>
  /\ PlainEffects
  /\ last' = [op |-> "exportDone", fault |-> fault, export |-> e]

\* An end of export that draws the store as it is when the export ends.
ExportDoneFromStore(e, fault) ==
  /\ BagIn(e, exports)
  /\ exports' = exports (-) SetToBag({e})
  /\ download' = Some(ExportOf(e.file, annotations, fault))
  /\ UNCHANGED <<pageVars, pdfDoc, pageDimensions, gestureVars, picks, nextId, placedOn>>
  /\ PlainEffects
  /\ last' = [op |-> "exportDone", fault |-> fault, export |-> e]

\* The export's awaits are over: the link is clicked or the catch has run.
ExportDone(e, fault) ==
  /\ BagIn(e, exports)
  /\ exports' = exports (-) SetToBag({e})
  /\ download' = Some(ExportOf(e.file, e.annotations, fault))
  /\ UNCHANGED <<pageVars, pdfDoc, pageDimensions, gestureVars, picks, nextId, placedOn>>
  /\ PlainEffects
  /\ last' = [op |-> "exportDone", fault |-> fault, export |-> e]

(***************************************************************************)
(* Specifications                                                          *)
(***************************************************************************)
AllIds == 1..MaxIds

ClickKinds == {"viewer", "canvas", "annotation", "handle"}

Tools == {"text", "image"}

\* The state with document doc chosen, opened and its first page rendered at
\* zoom 1, holding the given annotations (ids 1, 2, ... in order) with `sel`
\* selected: what choosing the file, LoadDone, RenderGetPage and RenderDone, then
\* placements and edits, lead to.
Loaded(doc, store, sel) ==
  /\ pdfFile = doc
  /\ annotations = store
  /\ selectedTool = "none"
  /\ currentPage = 1
  /\ numPages = Len(DocPages(doc))
  /\ scale = Num(1)
  /\ selectedAnnotationId = sel
  /\ pdfDoc = doc
  /\ pageDimensions = Viewport(doc, 1, Num(1))
  /\ pdfLoadingError = ""
  /\ draggingAnnotationId = 0
  /\ dragStartOffset = None
  /\ resizeState = None
  /\ canvas = CanvasOf(Viewport(doc, 1, Num(1)))
  /\ loads = EmptyBag
  /\ renders = EmptyBag
  /\ picks = EmptyBag
  /\ exports = EmptyBag
  /\ download = None
  /\ grab = None
  /\ nextId = Len(store) + 1
  /\ placedOn = [i \in 1..Len(store) |-> doc]
  /\ last = [op |-> "other"]

Placing(xs, ys, sources) ==
  \/ \E tool \in Tools : ToggleTool(tool)
  \/ \E t \in ClickKinds, cx \in xs, cy \in ys : HandleViewerClick(t, cx, cy)
  \/ \E p \in BagToSet(picks), src \in sources : ImagePickChoose(p, src)
  \/ \E p \in BagToSet(picks) : ImagePickCancel(p)
  \/ \E p \in BagToSet(picks) : ImageReadDone(p)

Pointer(xs, ys) ==
  \/ \E id \in AllIds, cx \in xs, cy \in ys : HandleAnnotationMouseDown(id, cx, cy)
  \/ \E cx \in xs, cy \in ys : HandleDragMove(cx, cy)
  \/ HandleDragEnd
  \/ \E id \in AllIds, hd \in Handles, cx \in xs, cy \in ys :
       HandleResizeMouseDown(id, hd, cx, cy)
  \/ \E cx \in xs, cy \in ys : HandleResizeMouseMove(cx, cy)
  \/ HandleResizeMouseUp

\* 1. The interaction machine on an open document: placement, selection,
\*    deletion and the pointer gestures, all at one pointer position.
\* The one-page document.
MachineDoc == CHOOSE doc \in GoodDocs : Len(DocPages(doc)) = 1

MachineXs == {40}

MachineYs == {40}

MachineSources == {"data:image/png"}

Next ==
  \/ Placing(MachineXs, MachineYs, MachineSources)
  \/ \E id \in AllIds : DeleteAnnotation(id)
  \/ \E id \in AllIds : SelectInPanel(id)
  \/ Pointer(MachineXs, MachineYs)

Spec == Loaded(MachineDoc, << >>, 0) /\ [][Next]_vars

\* 2. Switching documents: choosing files, loading, rendering and placement,
\*    from the state after construction.
SwitchDocs == {1, 2}

SwitchXs == {40}

SwitchYs == {40}

SwitchSources == {"data:image/png"}

NextSwitch ==
  \/ \E f \in SwitchDocs : HandleFileChange(f)
  \/ HandleFileChangeInvalid
  \/ \E l \in BagToSet(loads) : LoadDone(l)
  \/ \E r \in BagToSet(renders) : RenderGetPage(r)
  \/ \E r \in BagToSet(renders) : RenderDone(r)
  \/ Placing(SwitchXs, SwitchYs, SwitchSources)

SpecSwitch == Init /\ [][NextSwitch]_vars

\* 3. Choosing a file over a session in use: navigation, zoom and text
\*    placement on a two-page document, from the state after construction.
ResetDocs == {1}

ResetScales == {Num(2)}

NextReset ==
  \/ \E f \in ResetDocs : HandleFileChange(f)
  \/ HandleFileChangeInvalid
  \/ \E l \in BagToSet(loads) : LoadDone(l)
  \/ \E r \in BagToSet(renders) : RenderGetPage(r)
  \/ \E r \in BagToSet(renders) : RenderDone(r)
  \/ PrevPage
  \/ NextPage
  \/ \E sc \in ResetScales : ZoomSlider(sc)
  \/ ToggleTool("text")
  \/ \E t \in ClickKinds, cx \in SwitchXs, cy \in SwitchYs : HandleViewerClick(t, cx, cy)

SpecReset == Init /\ [][NextReset]_vars

\* 4. Gestures on one placed annotation, the pointer ranging over positions on,
\*    around and far outside the page.
GestureXs == {-40, 40, 90, 140, 500}

GestureYs == {-20, 40, 55, 70, 250}

\* What a click at (40, 40) on the first page of doc places, as placed, after
\* its size fields were edited in the panel.
GestureSeeds(doc) ==
  LET x == Pct(Num(40), Num(DocPages(doc)[1][1]))
      y == Pct(Num(40), Num(DocPages(doc)[1][2]))
  IN  { NewImage(1, x, y, "data:image/png"),
        [NewImage(1, x, y, "data:image/png")
           EXCEPT !.width = <<"1", "0", "0", "p", "x">>, !.height = <<"3", "0", "p", "x">>],
        NewText(1, x, y) }

InitGesture ==
  \E doc \in GoodDocs : \E seed \in GestureSeeds(doc) : Loaded(doc, <<seed @@ [id |-> 1]>>, 1)

\* The annotation is where and as it was placed: gestures start from there.
AsPlaced == \E seed \in GestureSeeds(pdfDoc) : annotations = <<seed @@ [id |-> 1]>>

NextGesture ==
  \/ AsPlaced /\ \E id \in AllIds, cx \in GestureXs, cy \in GestureYs :
                   HandleAnnotationMouseDown(id, cx, cy)
  \/ \E cx \in GestureXs, cy \in GestureYs : HandleDragMove(cx, cy)
  \/ HandleDragEnd
  \/ AsPlaced /\ \E id \in AllIds, hd \in Handles, cx \in GestureXs, cy \in GestureYs :
                   HandleResizeMouseDown(id, hd, cx, cy)
  \/ \E cx \in GestureXs, cy \in GestureYs : HandleResizeMouseMove(cx, cy)
  \/ HandleResizeMouseUp

SpecGesture == InitGesture /\ [][NextGesture]_vars

\* 5. Rotation steps on a placed text and a placed image.
InitRotate ==
  Loaded(MachineDoc, <<NewText(1, Num(10), Num(20)) @@ [id |-> 1],
                       NewImage(1, Num(10), Num(20), "data:image/png") @@ [id |-> 2]>>, 2)

NextRotate ==
  \/ \E direction \in {"cw", "ccw"} : HandleAnnotationRotation(direction)
  \/ \E id \in AllIds : SelectInPanel(id)
  \/ \E id \in AllIds : DeleteAnnotation(id)

SpecRotate == InitRotate /\ [][NextRotate]_vars

\* 6. Export of one image whose size fields hold a magnitude and a unit.
UnitMagnitudes ==
  { [chars |-> <<"2", "5">>, value |-> Num(25)],
    [chars |-> <<"1", "0">>, value |-> Num(10)],
    [chars |-> <<"2">>, value |-> Num(2)],
    [chars |-> <<"0", ".", "5">>, value |-> Rat(1, 2)],
    [chars |-> <<"1", "2", ".", "5", "0">>, value |-> Rat(25, 2)],
    [chars |-> <<"-", "3">>, value |-> Num(-3)],
    [chars |-> <<"1", "e", "2">>, value |-> Num(100)],
    [chars |-> <<"0">>, value |-> Num(0)] }

UnitSuffixes == {<<"%">>, <<"p", "x">>, <<"p", "t">>, <<"e", "m">>, << >>}

UnitStrings == {m.chars \o suffix : m \in UnitMagnitudes, suffix \in UnitSuffixes}

InitUnits ==
  \E w \in UnitStrings, h \in UnitStrings :
    Loaded(MachineDoc,
           <<[NewImage(1, Num(10), Num(20), "data:image/png")
                EXCEPT !.width = w, !.height = h] @@ [id |-> 1]>>, 1)

NextUnits ==
  \/ HandleDownload
  \/ \E e \in BagToSet(exports), fault \in ExportFaults : ExportDone(e, fault)

SpecUnits == InitUnits /\ [][NextUnits]_vars

\* 7. Export of one image whose size fields were edited to strings parseFloat
\*    cannot read, with and without a unit.
UnparseableMagnitudes == {<<"a", "b", "c">>, << >>, <<".">>, <<"-">>}

UnparseableStrings ==
  {m \o suffix : m \in UnparseableMagnitudes, suffix \in UnitSuffixes} \ {<< >>}

\* The panel is used before the export starts.
BeforeExport == exports = EmptyBag /\ download = None

InitFallback ==
  Loaded(MachineDoc, <<NewImage(1, Num(10), Num(20), "data:image/png") @@ [id |-> 1]>>, 1)

NextFallback ==
  \/ BeforeExport /\ \E v \in UnparseableStrings : EditImageWidth(1, v)
  \/ BeforeExport /\ \E v \in UnparseableStrings : EditImageHeight(1, v)
  \/ HandleDownload
  \/ \E e \in BagToSet(exports), fault \in ExportFaults : ExportDone(e, fault)

SpecFallback == InitFallback /\ [][NextFallback]_vars

\* 8. Export of stores of one to three annotations of every kind: texts, drawable
\*    images, an image of a format without embedder, an image whose bytes the
\*    embedder rejects, and a text the font cannot encode.
MaxStore == 3

ExportSeeds(doc) ==
  { NewText(1, Num(10), Num(10)),
    [NewText(1, Num(30), Num(50)) EXCEPT !.text = "non-Latin text"],
    NewImage(Len(DocPages(doc)), Num(50), Num(0), "data:image/png"),
    [NewImage(1, Num(0), Rat(999, 10), "data:image/jpeg")
       EXCEPT !.width = <<"1", "0", "0", "p", "x">>, !.height = <<"8", "0", "p", "x">>],
    NewImage(1, Num(20), Num(20), "data:image/gif"),
    NewImage(1, Num(40), Num(60), "data:image/png,damaged") }

\* The stores of n annotations with ids 1..n.
ExportStores(doc) ==
  UNION { {[i \in 1..n |-> s[i] @@ [id |-> i]] : s \in [1..n -> ExportSeeds(doc)]} :
          n \in 1..MaxStore }

InitExport == \E doc \in GoodDocs : \E store \in ExportStores(doc) : Loaded(doc, store, 0)

NextExport ==
  \/ HandleDownload
  \/ \E e \in BagToSet(exports), fault \in ExportFaults : ExportDone(e, fault)

SpecExport == InitExport /\ [][NextExport]_vars

\* 9. Navigation and zoom on the two-page document holding a text and an image:
\*    the page buttons, the zoom buttons, the slider and the loads and renders
\*    they start.
ViewDoc == CHOOSE doc \in GoodDocs : Len(DocPages(doc)) = 2

ViewScales == {Rat(1, 4), Rat(3, 2), Num(3)}

ViewStore ==
  <<NewText(1, Num(10), Num(20)) @@ [id |-> 1],
    [NewImage(2, Rat(999, 10), Num(0), "data:image/png")
       EXCEPT !.width = <<"1", "0", "0", "p", "x">>, !.rotation = 45] @@ [id |-> 2]>>

InitView == \E sel \in 0..Len(ViewStore) : Loaded(ViewDoc, ViewStore, sel)

NextView ==
  \/ PrevPage
  \/ NextPage
  \/ ZoomOut
  \/ ZoomIn
  \/ \E sc \in ViewScales : ZoomSlider(sc)
  \/ \E l \in BagToSet(loads) : LoadDone(l)
  \/ \E r \in BagToSet(renders) : RenderGetPage(r)
  \/ \E r \in BagToSet(renders) : RenderDone(r)

SpecView == InitView /\ [][NextView]_vars

\* 10. Placement clicks on, at the edge of and beside the rendered page, which
\*     holds a selected image whose box reaches over the page's right edge.
PlaceXs == {-40, 40, 400, 450}

PlaceYs == {-20, 40, 250}

PlaceSources == {"data:image/png"}

InitPlace ==
  Loaded(MachineDoc, <<NewImage(1, Rat(999, 10), Num(10), "data:image/png") @@ [id |-> 1]>>, 1)

NextPlace ==
  \/ Placing(PlaceXs, PlaceYs, PlaceSources)
  \/ \E id \in AllIds : SelectInPanel(id)

SpecPlace == InitPlace /\ [][NextPlace]_vars

\* 11. Failures around a store in use: files pdf.js rejects or that cannot be
\*     read, renders that reject, and exports that fail or skip, with a text
\*     placed while the new file is loading.
FailureDocs == BadDocs \cup {ViewDoc}

FailureStore ==
  <<[NewText(1, Num(10), Num(20)) EXCEPT !.text = "non-Latin text"] @@ [id |-> 1]>>

InitFailure == Loaded(ViewDoc, FailureStore, 1)

NextFailure ==
  \/ \E f \in FailureDocs : HandleFileChange(f)
  \/ \E l \in BagToSet(loads) : LoadDone(l)
  \/ \E l \in BagToSet(loads) : LoadFail(l)
  \/ \E l \in BagToSet(loads) : LoadReadError(l)
  \/ \E r \in BagToSet(renders) : RenderGetPage(r)
  \/ \E r \in BagToSet(renders) : RenderDone(r)
  \/ \E r \in BagToSet(renders) : RenderFail(r)
  \/ ToggleTool("text")
  \/ \E t \in ClickKinds : HandleViewerClick(t, 40, 40)
  \/ HandleDownload
  \/ \E e \in BagToSet(exports), fault \in ExportFaults : ExportDone(e, fault)

SpecFailure == InitFailure /\ [][NextFailure]_vars

\* 12. Downloads from the state after construction: with no file chosen, with a
\*     file pdf.js rejects, and with an open document and a text placed on it.
DownloadDocs == BadDocs \cup {MachineDoc}

NextDownload ==
  \/ HandleDownloadNoFile
  \/ \E f \in DownloadDocs : HandleFileChange(f)
  \/ \E l \in BagToSet(loads) : LoadDone(l)
  \/ \E l \in BagToSet(loads) : LoadFail(l)
  \/ \E r \in BagToSet(renders) : RenderGetPage(r)
  \/ \E r \in BagToSet(renders) : RenderDone(r)
  \/ ToggleTool("text")
  \/ \E t \in ClickKinds : HandleViewerClick(t, 40, 40)
  \/ \E id \in AllIds : EditText(id, "non-Latin text")
  \/ HandleDownload
  \/ \E e \in BagToSet(exports), fault \in ExportFaults : ExportDone(e, fault)

SpecDownload == Init /\ [][NextDownload]_vars

\* 13. The store's ids: placements whose id the generator has or has not given
\*     before, deletions, text edits and selection on the one-page document.
NextIds ==
  \/ Placing(MachineXs, MachineYs, MachineSources)
  \/ \E p \in BagToSet(picks), id \in AllIds : ImageReadDoneRepeating(p, id)
  \/ \E id \in AllIds : DeleteAnnotation(id)
  \/ \E id \in AllIds : SelectInPanel(id)
  \/ \E id \in AllIds : EditText(id, "non-Latin text")

SpecIds == Loaded(MachineDoc, << >>, 0) /\ [][NextIds]_vars

\* 14. Resizing images sized in each unit at two zoom factors: at 1.5 the page
\*     is 600 x 300 px, of which 20 px is no whole number of hundredths of a
\*     percent.
FloorScales == {Num(1), Rat(3, 2)}

FloorXs == {60, 140, 210}

FloorYs == {60, 70, 105}

\* The seeds of the gestures, and the image sized 100 x 30 px in points, in em
\* and in numbers with no unit.
FloorSeeds ==
  GestureSeeds(MachineDoc) \cup
  { [NewImage(1, Num(10), Num(20), "data:image/png")
       EXCEPT !.width = <<"7", "5", "p", "t">>, !.height = <<"2", "2", ".", "5", "p", "t">>],
    [NewImage(1, Num(10), Num(20), "data:image/png")
       EXCEPT !.width = <<"6", ".", "2", "5", "e", "m">>,
              !.height = <<"1", ".", "8", "7", "5", "e", "m">>],
    [NewImage(1, Num(10), Num(20), "data:image/png")
       EXCEPT !.width = <<"1", "0", "0">>, !.height = <<"3", "0">>] }

InitFloor == \E seed \in FloorSeeds : Loaded(MachineDoc, <<seed @@ [id |-> 1]>>, 1)

\* The annotation is as seeded: resizes start from there.
AsSeeded == \E seed \in FloorSeeds : annotations = <<seed @@ [id |-> 1]>>

NextFloor ==
  \/ \E s \in FloorScales : ZoomSlider(s)
  \/ \E r \in BagToSet(renders) : RenderGetPage(r)
  \/ \E r \in BagToSet(renders) : RenderDone(r)
  \/ AsSeeded /\ \E id \in AllIds, hd \in Handles, cx \in FloorXs, cy \in FloorYs :
                   HandleResizeMouseDown(id, hd, cx, cy)
  \/ \E cx \in FloorXs, cy \in FloorYs : HandleResizeMouseMove(cx, cy)
  \/ HandleResizeMouseUp

SpecFloor == InitFloor /\ [][NextFloor]_vars

\* 15. Resizing where ids repeat: a text annotation is in the store, the image
\*     tool places images whose id the generator has or has not given before,
\*     and the pointer works the handles of what is shown.
ResizeIdsXs == {40, 140}

ResizeIdsYs == {40, 70}

ResizeIdsWidths == {Num(30), NaN}

InitResizeIds ==
  Loaded(MachineDoc,
         <<NewText(1, Pct(Num(40), Num(400)), Pct(Num(40), Num(200))) @@ [id |-> 1]>>, 1)

\* No resize move has written a size yet: resizes start from there.
Unresized ==
  \A i \in 1..Len(annotations) :
    IF annotations[i].type = "image" THEN annotations[i].width = <<"2", "5", "%">>
    ELSE ~IsPercentString(annotations[i].width)

NextResizeIds ==
  \/ ToggleTool("image")
  \/ \E t \in ClickKinds : HandleViewerClick(t, 40, 40)
  \/ \E p \in BagToSet(picks), src \in MachineSources : ImagePickChoose(p, src)
  \/ \E p \in BagToSet(picks) : ImageReadDone(p)
  \/ \E p \in BagToSet(picks), id \in AllIds : ImageReadDoneRepeating(p, id)
  \/ \E id \in AllIds, num \in ResizeIdsWidths : EditTextWidth(id, num)
  \/ Unresized /\ \E id \in AllIds, hd \in Handles, cx \in ResizeIdsXs, cy \in ResizeIdsYs :
                    HandleResizeMouseDown(id, hd, cx, cy)
  \/ \E cx \in ResizeIdsXs, cy \in ResizeIdsYs : HandleResizeMouseMove(cx, cy)
  \/ HandleResizeMouseUp

SpecResizeIds == InitResizeIds /\ [][NextResizeIds]_vars

\* 16. Pointer-downs on what the page shows: a text annotation and an image
\*     beside it, either selected or none.
SelectXs == {40, 60, 200, 250}

SelectYs == {40, 50, 55}

SelectStore ==
  << NewText(1, Num(10), Num(20)) @@ [id |-> 1],
     NewImage(1, Num(50), Num(20), "data:image/png") @@ [id |-> 2] >>

InitSelect == \E sel \in {0, 1, 2} : Loaded(MachineDoc, SelectStore, sel)

NextSelect ==
  \/ \E id \in AllIds, cx \in SelectXs, cy \in SelectYs : HandleAnnotationMouseDown(id, cx, cy)
  \/ \E id \in AllIds, cx \in SelectXs, cy \in SelectYs : HandleTextareaMouseDown(id, cx, cy)
  \/ \E id \in AllIds, hd \in Handles, cx \in SelectXs, cy \in SelectYs :
       HandleResizeMouseDown(id, hd, cx, cy)
  \/ HandleDragEnd
  \/ HandleResizeMouseUp
  \/ \E id \in AllIds : SelectInPanel(id)

SpecSelect == InitSelect /\ [][NextSelect]_vars

\* 17. Placement with image reads under way: on the two-page document a click
\*     may come while the file chosen for an earlier click is still being read,
\*     and the page may change in between.  A tool is switched on or off only
\*     with no image placement under way.
MaxPending == 2

TwiceXs == {40, 450}

NextTwice ==
  \/ picks = EmptyBag /\ \E tool \in Tools : ToggleTool(tool)
  \/ \E t \in ClickKinds, cx \in TwiceXs : HandleViewerClickWithin(MaxPending, t, cx, 40)
  \/ \E p \in BagToSet(picks) : ImagePickChoose(p, "data:image/png")
  \/ \E p \in BagToSet(picks) : ImagePickCancel(p)
  \/ \E p \in BagToSet(picks) : ImageReadDone(p)
  \/ NextPage
  \/ \E l \in BagToSet(loads) : LoadDone(l)
  \/ \E r \in BagToSet(renders) : RenderGetPage(r)
  \/ \E r \in BagToSet(renders) : RenderDone(r)

SpecTwice == Loaded(ViewDoc, << >>, 0) /\ [][NextTwice]_vars

\* 18. Export of one text annotation, placed at the top, the middle or the bottom
\*     of the page, after its font size and width were edited in the panel.
TextYs == {Num(10), Num(50), Rat(999, 10)}

TextFontSizes == {Num(8), Num(24), NaN}

TextEditWidths == {Num(50), Rat(125, 10), NaN}

InitText ==
  \E doc \in GoodDocs, y \in TextYs : Loaded(doc, <<NewText(1, Num(10), y) @@ [id |-> 1]>>, 1)

NextText ==
  \/ BeforeExport /\ \E num \in TextFontSizes : EditFontSize(1, num)
  \/ BeforeExport /\ \E num \in TextEditWidths : EditTextWidth(1, num)
  \/ HandleDownload
  \/ \E e \in BagToSet(exports), fault \in ExportFaults : ExportDone(e, fault)

SpecText == InitText /\ [][NextText]_vars

\* 19. Export after the document was changed while a picked image was being
\*     read: the image was placed on page 2 of the two-page document, the
\*     document exported is the one-page document.  The document is changed
\*     once and the export is the last thing done.
StrayXs == {40}

StrayYs == {40}

NextStray ==
  \/ \E l \in BagToSet(loads) : LoadDone(l)
  \/ \E r \in BagToSet(renders) : RenderGetPage(r)
  \/ \E r \in BagToSet(renders) : RenderDone(r)
  \/ BeforeExport /\ NextPage
  \/ BeforeExport /\ \E tool \in Tools : ToggleTool(tool)
  \/ BeforeExport /\ \E t \in ClickKinds, cx \in StrayXs, cy \in StrayYs :
                       HandleViewerClick(t, cx, cy)
  \/ BeforeExport /\ \E p \in BagToSet(picks) : ImagePickChoose(p, "data:image/png")
  \/ BeforeExport /\ \E p \in BagToSet(picks) : ImageReadDone(p)
  \/ BeforeExport /\ pdfFile = ViewDoc /\ HandleFileChange(MachineDoc)
  \/ BeforeExport /\ HandleDownload
  \/ \E e \in BagToSet(exports) : ExportDone(e, "none")

SpecStray == Loaded(ViewDoc, << >>, 0) /\ [][NextStray]_vars

\* 20. An export under way while the session goes on: the text is edited, an
\*     annotation is deleted, the page and the zoom are changed and another
\*     document is chosen.  Every awaited call of an export resolves or rejects
\*     in the end: an export under way leaves the exports under way, which only
\*     its end (ExportDone) does.
RunStore ==
  <<NewText(1, Num(10), Num(20)) @@ [id |-> 1],
    NewImage(2, Num(50), Num(0), "data:image/png") @@ [id |-> 2]>>

RunScales == {Rat(3, 2)}

ExportEnd == \E e \in BagToSet(exports), fault \in ExportFaults : ExportDone(e, fault)

ExportSettles == \E e \in BagToSet(exports) : exports' = exports (-) SetToBag({e})

NextRun ==
  \/ HandleDownload
  \/ ExportEnd
  \/ \E id \in AllIds : EditText(id, "non-Latin text")
  \/ \E id \in AllIds : DeleteAnnotation(id)
  \/ NextPage
  \/ PrevPage
  \/ \E sc \in RunScales : ZoomSlider(sc)
  \/ HandleFileChange(MachineDoc)
  \/ \E l \in BagToSet(loads) : LoadDone(l)
  \/ \E r \in BagToSet(renders) : RenderGetPage(r)
  \/ \E r \in BagToSet(renders) : RenderDone(r)

SpecRun == Loaded(ViewDoc, RunStore, 0) /\ [][NextRun]_vars /\ WF_exports(ExportSettles)

\* 21. Two renders under way on the two-page document: the page or the zoom was
\*     changed while the render of the earlier page and zoom had not finished,
\*     and both are past getPage.  The page and the zoom of the state are those
\*     of the later request.
RaceScales == {Num(1), Rat(3, 2), Num(2)}

RaceRequests == {[page |-> p, scale |-> sc] : p \in 1..Len(DocPages(ViewDoc)), sc \in RaceScales}

RenderOf(doc, request) ==
  [doc |-> doc, page |-> request.page, scale |-> request.scale, phase |-> "render"]

InitRace ==
  \E earlier, latest \in RaceRequests :
    /\ earlier # latest
    /\ pdfFile = ViewDoc
    /\ annotations = << >>
    /\ selectedTool = "none"
    /\ currentPage = latest.page
    /\ numPages = Len(DocPages(ViewDoc))
    /\ scale = latest.scale
    /\ selectedAnnotationId = 0
    /\ pdfDoc = ViewDoc
    /\ pageDimensions = Viewport(ViewDoc, 1, Num(1))
    /\ pdfLoadingError = ""
    /\ draggingAnnotationId = 0
    /\ dragStartOffset = None
    /\ resizeState = None
    /\ canvas = CanvasOf(Viewport(ViewDoc, latest.page, latest.scale))
    /\ loads = EmptyBag
    /\ renders = OneRender(RenderOf(ViewDoc, earlier)) (+) OneRender(RenderOf(ViewDoc, latest))
    /\ picks = EmptyBag
    /\ exports = EmptyBag
    /\ download = None
    /\ grab = None
    /\ nextId = 1
    /\ placedOn = << >>
    /\ last = [op |-> "other"]

NextRace ==
  \/ \E r \in BagToSet(renders) : RenderGetPage(r)
  \/ \E r \in BagToSet(renders) : RenderDone(r)
  \/ \E r \in BagToSet(renders) : RenderFail(r)
  \/ \E l \in BagToSet(loads) : LoadDone(l)
  \/ \E sc \in RaceScales : ZoomSlider(sc)
  \/ NextPage
  \/ PrevPage

SpecRace == InitRace /\ [][NextRace]_vars

\* 22. The selection through a session: placements of both kinds, the image's
\*     file read ending after another document was chosen, selection on the page
\*     and in the panel, deletions, and the choice of a document, from the state
\*     after construction.
SelectionDocs == {MachineDoc}

NextSelection ==
  \/ \E f \in SelectionDocs : HandleFileChange(f)
  \/ \E l \in BagToSet(loads) : LoadDone(l)
  \/ \E r \in BagToSet(renders) : RenderGetPage(r)
  \/ \E r \in BagToSet(renders) : RenderDone(r)
  \/ Placing(MachineXs, MachineYs, MachineSources)
  \/ \E id \in AllIds : DeleteAnnotation(id)
  \/ \E id \in AllIds : SelectInPanel(id)
  \/ \E id \in AllIds, cx \in MachineXs, cy \in MachineYs : HandleAnnotationMouseDown(id, cx, cy)
  \/ HandleDragEnd

SpecSelection == Init /\ [][NextSelection]_vars

\* 23. The store changing while an export is under way: a text is placed and
\*     edited, the image is dragged, given another width and deleted, on the
\*     one-page document holding one image.  One export is started, the store
\*     changes while it is under way, and the run ends with the export.
SnapshotStore == <<NewImage(1, Num(50), Num(50), "data:image/png") @@ [id |-> 1]>>

SnapshotXs == {250, 300}

SnapshotYs == {115}

SnapshotWidths == {<<"5", "0", "%">>}

UnderWay == exports # EmptyBag

NextSnapshot ==
  \/ BeforeExport /\ HandleDownload
  \/ \E e \in BagToSet(exports), fault \in ExportFaults : ExportDone(e, fault)
  \/ UnderWay /\ ToggleTool("text")
  \/ UnderWay /\ \E t \in ClickKinds : HandleViewerClick(t, 40, 40)
  \/ UnderWay /\ \E id \in AllIds : EditText(id, "edited")
  \/ UnderWay /\ \E id \in AllIds, v \in SnapshotWidths : EditImageWidth(id, v)
  \/ UnderWay /\ \E id \in AllIds : DeleteAnnotation(id)
  \/ UnderWay /\ \E id \in AllIds, cx \in SnapshotXs, cy \in SnapshotYs :
                    HandleAnnotationMouseDown(id, cx, cy)
  \/ UnderWay /\ \E cx \in SnapshotXs, cy \in SnapshotYs : HandleDragMove(cx, cy)
  \/ UnderWay /\ HandleDragEnd

SpecSnapshot == Loaded(MachineDoc, SnapshotStore, 0) /\ [][NextSnapshot]_vars

(***************************************************************************)
(* Properties                                                              *)
(***************************************************************************)
\* 0 <= v <= 99.9
InPageRange(v) == RLe(Num(0), v) /\ RLe(v, Rat(999, 10))

\* v brought into [0, 99.9]
Limited(v) == IF RLt(v, Num(0)) THEN Num(0) ELSE IF RLt(Rat(999, 10), v) THEN Rat(999, 10) ELSE v

\* The last event was a pointer move that updated an annotation.
DragUpdated == last.op = "dragMove" /\ last.applied

ResizeUpdated == last.op = "resizeMove" /\ last.applied

\* C1: after every drag move and every resize move that updates an annotation,
\* the updated annotation has 0 <= x <= 99.9 and 0 <= y <= 99.9.
ClampingInvariant ==
  /\ DragUpdated =>
       LET a == Find(annotations, draggingAnnotationId)
       IN  InPageRange(a.x) /\ InPageRange(a.y)
  /\ ResizeUpdated =>
       LET a == Find(annotations, resizeState[1].annotationId)
       IN  InPageRange(a.x) /\ InPageRange(a.y)

\* A drag move far beyond the right and above the top edge was clamped on both
\* axes.
ClampingWitness ==
  /\ DragUpdated
  /\ last.cx > canvas.width /\ last.cy < 0
  /\ Find(annotations, draggingAnnotationId).x = Rat(999, 10)
  /\ Find(annotations, draggingAnnotationId).y = Num(0)

\* C2: a drag and a resize are never active together, and a pointer-down on a
\* body or a handle starts a gesture only when neither is active.
OneGestureAtATime ==
  /\ ~(draggingAnnotationId # 0 /\ resizeState # None)
  /\ last.op \in {"bodyDown", "handleDown"} => last.idle

\* C3: after a pointer-up the machine is Idle: no drag id, no grab offset and no
\* resize state.
PointerUpEndsGesture ==
  last.op = "mouseUp" =>
    draggingAnnotationId = 0 /\ dragStartOffset = None /\ resizeState = None

\* The position a drag move must give on one axis: the annotation's position at
\* pointer-down plus the pointer's displacement in percent of the extent,
\* brought into [0, 99.9].
DragTarget(start, down, now, extent) ==
  Limited(RAdd(start, Rat((now - down) * 100, extent)))

\* C4: while the surface keeps the extent it had at pointer-down, every drag move
\* sets x, y to the pointer's percent position minus the grab offset, clamped
\* per axis to [0, 99.9]: the annotation moves by the pointer's displacement in
\* percent of the extent when no clamp applies, and a move to the pointer-down
\* point leaves x, y as they were.
DragLaw ==
  DragUpdated /\ grab # None /\ canvas = grab[1].extent =>
    LET g == grab[1]
        a == Find(annotations, draggingAnnotationId)
    IN  /\ dragStartOffset[1].x = RSub(Rat(g.cx * 100, g.extent.width), g.x)
        /\ dragStartOffset[1].y = RSub(Rat(g.cy * 100, g.extent.height), g.y)
        /\ a.x = DragTarget(g.x, g.cx, last.cx, g.extent.width)
        /\ a.y = DragTarget(g.y, g.cy, last.cy, g.extent.height)
        /\ last.cx = g.cx => a.x = g.x
        /\ last.cy = g.cy => a.y = g.y

\* A drag move away from the pointer-down point moved the annotation on both
\* axes, to a position no clamp touched.
DragLawWitness ==
  /\ DragUpdated /\ grab # None /\ canvas = grab[1].extent
  /\ last.cx # grab[1].cx /\ last.cy # grab[1].cy
  /\ LET a == Find(annotations, draggingAnnotationId)
     IN  /\ a.x = RAdd(grab[1].x, Rat((last.cx - grab[1].cx) * 100, canvas.width))
         /\ a.y = RAdd(grab[1].y, Rat((last.cy - grab[1].cy) * 100, canvas.height))
         /\ a.x # grab[1].x /\ a.y # grab[1].y

\* C5: a resize move of a gesture on the bottomRight handle leaves x and y at
\* their values at resize start (and one on the topLeft handle changes both).
BottomRightKeepsOrigin ==
  ResizeUpdated /\ resizeState[1].handle = "bottomRight" =>
    LET a == Find(annotations, resizeState[1].annotationId)
    IN  /\ a.x = resizeState[1].initialAnnotationXPercent
        /\ a.y = resizeState[1].initialAnnotationYPercent

\* Every rotation in the store is in [0, 360).
RotationInRange == \A i \in 1..Len(annotations) : annotations[i].rotation \in 0..359

\* A rotation step sets the selected annotation's rotation to (r + 15) mod 360
\* clockwise and (r - 15) mod 360 counter-clockwise, and undoes a step of the
\* other direction taken just before on the same annotation.
RotationStep ==
  last'.op = "rotate" /\ last'.found =>
    LET r    == Find(annotations, last'.id).rotation
        rNew == Find(annotations', last'.id).rotation
    IN  /\ last'.from = r
        /\ last'.direction = "cw" => rNew = (r + 15) % 360
        /\ last'.direction = "ccw" => rNew = (r - 15) % 360
        /\ (/\ last.op = "rotate" /\ last.found /\ last.id = last'.id
            /\ last.direction # last'.direction) => rNew = last.from

\* C6: each rotation step adds or subtracts 15 modulo 360, the rotation stays in
\* [0, 360) after any sequence of steps, and a step followed by the opposite
\* step restores the rotation.
RotationLaw == []RotationInRange /\ [][RotationStep]_vars

\* A clockwise step from 345 wrapped to 0.
RotationWitness ==
  /\ last.op = "rotate" /\ last.found /\ last.direction = "cw" /\ last.from = 345
  /\ Find(annotations, last.id).rotation = 0

\* C7: deleting the annotation that is selected leaves nothing selected.
DeleteClearsSelection ==
  last.op = "delete" /\ last.wasSelected => selectedAnnotationId = 0

\* The selected annotation was deleted while another one stays in the store.
DeleteWitness ==
  /\ last.op = "delete" /\ last.wasSelected
  /\ annotations # << >>
  /\ selectedAnnotationId = 0

\* C8: accepting a file of PDF type empties the store and sets the page to 1,
\* the zoom to 1.0, the tool to none and the selection to none.
FileChangeResets ==
  last.op = "fileChange" /\ last.accepted =>
    /\ annotations = << >>
    /\ currentPage = 1
    /\ scale = Num(1)
    /\ selectedTool = "none"
    /\ selectedAnnotationId = 0

\* A file was accepted in a session that had annotations, a selection, an
\* armed tool, a page other than 1 and a zoom other than 1.
FileChangeWitness ==
  /\ last.op = "fileChange" /\ last.accepted
  /\ last.had.annos /\ last.had.page /\ last.had.scale /\ last.had.tool /\ last.had.sel
  /\ annotations = << >> /\ currentPage = 1 /\ scale = Num(1)

\* C9: once the chosen document is the one open, every annotation in the store
\* was placed on a rendering of that document.
PlacedOnOpenDocument ==
  pdfDoc = pdfFile =>
    \A i \in 1..Len(annotations) : placedOn[annotations[i].id] = pdfDoc

\* The size a dimension of magnitude v resolves to by its suffix.
UnitExpected(v, suffix, reference) ==
  CASE suffix = <<"%">>      -> RMul(RDiv(v, Num(100)), reference)
    [] suffix = <<"p", "x">> -> v
    [] suffix = <<"p", "t">> -> v
    [] suffix = <<"e", "m">> -> RMul(Num(12), v)
    [] OTHER                 -> v

\* C10: the width and the height an export draws an image with are its size
\* fields' magnitudes resolved by suffix: % of the page's width or height, px
\* and pt as they are, em times 12, no suffix as it is.
UnitParserLaw ==
  download # None /\ download[1].ok =>
    \A i \in 1..Len(download[1].draws) :
      LET d  == download[1].draws[i]
          a  == Find(annotations, d.id)
          pw == Num(DocPages(download[1].file)[d.page][1])
          ph == Num(DocPages(download[1].file)[d.page][2])
      IN  \A m \in UnitMagnitudes, suffix \in UnitSuffixes :
            /\ a.width = m.chars \o suffix => d.width = UnitExpected(m.value, suffix, pw)
            /\ a.height = m.chars \o suffix => d.height = UnitExpected(m.value, suffix, ph)

\* An image of width "2em" and height "25%" was drawn 24 wide and, on a page 200
\* high, 50 high.
UnitParserWitness ==
  /\ download # None /\ download[1].ok /\ Len(download[1].draws) = 1
  /\ annotations[1].width = <<"2", "e", "m">>
  /\ annotations[1].height = <<"2", "5", "%">>
  /\ DocPages(download[1].file)[1][2] = 200
  /\ download[1].draws[1].width = Num(24)
  /\ download[1].draws[1].height = Num(50)

\* The toasts of the finished export that are about annotation id.
ToastsAbout(id) ==
  {download[1].toasts[i] : i \in {j \in 1..Len(download[1].toasts) : download[1].toasts[j].id = id}}

\* C11: an image whose width and height have no readable magnitude, with or
\* without a unit, is drawn 25% of the page wide and 15% of the page high, with a
\* warning shown for it, and the export does not fail.
FallbackLaw ==
  last.op = "exportDone" /\ last.fault = "none" =>
    /\ download[1].ok
    /\ \A i \in 1..Len(last.export.annotations) :
         LET a  == last.export.annotations[i]
             pw == Num(DocPages(download[1].file)[a.page][1])
             ph == Num(DocPages(download[1].file)[a.page][2])
         IN  a.width \in UnparseableStrings /\ a.height \in UnparseableStrings =>
               /\ \E d \in {download[1].draws[k] : k \in 1..Len(download[1].draws)} :
                    /\ d.id = a.id
                    /\ d.width = RMul(Rat(25, 100), pw)
                    /\ d.height = RMul(Rat(15, 100), ph)
               /\ \E t \in ToastsAbout(a.id) : t.title = "Image Warning"

\* An image annotation the export cannot embed: its format has no embedder or
\* its bytes do not decode.
Unembeddable(a) == a.type = "image" /\ a.src \notin {"data:image/png", "data:image/jpeg"}

Embeddable(a) == ~Unembeddable(a)

\* The export that just ended met no failure other than images it cannot embed.
OnlyImagesFailed ==
  /\ last.op = "exportDone" /\ last.fault = "none"
  /\ \A i \in 1..Len(last.export.annotations) :
       LET a == last.export.annotations[i]
       IN  /\ a.page \in 1..Len(DocPages(last.export.file))
           /\ a.type = "text" => a.text \notin UnencodableTexts

\* C12: an image whose format is unsupported or whose bytes do not decode is
\* skipped with an Image Error shown for it, every other annotation of the list
\* is drawn, in the order of the list, and the document is saved and downloaded.
SkipLaw ==
  OnlyImagesFailed =>
    LET kept == SelectSeq(last.export.annotations, Embeddable)
        out  == download[1]
    IN  /\ out.ok /\ out.downloaded
        /\ [i \in 1..Len(out.draws) |-> out.draws[i].id] = [i \in 1..Len(kept) |-> kept[i].id]
        /\ \A i \in 1..Len(last.export.annotations) :
             Unembeddable(last.export.annotations[i]) =>
               \E t \in ToastsAbout(last.export.annotations[i].id) : t.title = "Image Error"
        /\ \E t \in ToastsAbout(0) : t.title = "Download Started"

\* An export of three annotations skipped the second, an image without
\* embedder, and drew the first and the third.
SkipWitness ==
  /\ OnlyImagesFailed
  /\ Len(last.export.annotations) = 3
  /\ last.export.annotations[2].type = "image"
  /\ last.export.annotations[2].src = "data:image/gif"
  /\ Embeddable(last.export.annotations[1]) /\ Embeddable(last.export.annotations[3])
  /\ download[1].ok
  /\ [i \in 1..Len(download[1].draws) |-> download[1].draws[i].id] = <<1, 3>>

\* An export of three annotations skipped the first, an image whose bytes the
\* embedder rejects, and drew the two after it.
SkipDamagedWitness ==
  /\ OnlyImagesFailed
  /\ Len(last.export.annotations) = 3
  /\ last.export.annotations[1].type = "image"
  /\ last.export.annotations[1].src \in DamagedSources
  /\ download[1].ok
  /\ [i \in 1..Len(download[1].draws) |-> download[1].draws[i].id] = <<2, 3>>

\* The record with the given id among the annotations the finished export
\* captured.
Exported(id) == Find(last.export.annotations, id)

\* absoluteY + h + (y/100) * H = H
RecoversTop(absoluteY, h, y, H) ==
  RAdd(RAdd(absoluteY, h), RMul(RDiv(y, Num(100)), H)) = H

\* C13: the Y an export draws a box of resolved height h at is the flipped
\* H - (y/100) * H - h, so that adding h and the top-down offset gives the page
\* height back; an image's h is the height the unit parser resolved, a text's h
\* is the height estimated from its font size, its baseline lying h - fontSize
\* above the flipped Y.
FlipLaw ==
  last.op = "exportDone" /\ download[1].ok =>
    \A i \in 1..Len(download[1].draws) :
      LET d == download[1].draws[i]
          a == Exported(d.id)
          H == Num(DocPages(download[1].file)[d.page][2])
      IN  IF d.op = "drawImage"
            THEN /\ d.y = RSub(RSub(H, RMul(RDiv(a.y, Num(100)), H)), d.height)
                 /\ RecoversTop(d.y, d.height, a.y, H)
                 /\ a.height = <<"1", "5", "%">> => d.height = RMul(Rat(15, 100), H)
                 /\ a.height = <<"8", "0", "p", "x">> => d.height = Num(80)
          ELSE LET h == RMul(Num(a.fontSize), Rat(3, 2))
               IN  RecoversTop(RSub(d.y, RSub(h, Num(a.fontSize))), h, a.y, H)

\* An export drew a text placed 10% down the page and an image of height 80 placed
\* 99.9% down the page, whose flipped Y lies below the page's bottom edge.
FlipWitness ==
  /\ last.op = "exportDone" /\ download[1].ok
  /\ \E i, j \in 1..Len(download[1].draws) :
       LET d == download[1].draws[i]
           t == download[1].draws[j]
           H == Num(DocPages(download[1].file)[1][2])
       IN  /\ d.op = "drawImage" /\ d.height = Num(80) /\ Exported(d.id).y = Rat(999, 10)
           /\ d.y = RSub(RMul(Rat(1, 1000), H), Num(80))
           /\ RLt(d.y, Num(0))
           /\ t.op = "drawText" /\ Exported(t.id).y = Num(10)
           /\ t.y = RSub(RMul(Rat(9, 10), H), Num(12))

\* A step that changes the page or the zoom, or a load or a render that follows
\* the change.
ViewStep ==
  \/ last'.op \in {"page", "zoom"}
  \/ loads' # loads \/ renders' # renders
  \/ pageDimensions' # pageDimensions
  \/ canvas' # canvas

\* C14: a change of the zoom factor or of the current page, and the render that
\* follows it, leave the store as it was: every field of every annotation and
\* the order of the records.
ViewKeepsStore == [][ViewStep => annotations' = annotations]_vars

\* Page 2 is shown at three times the size, rendered, with the store as placed.
ViewWitness ==
  /\ currentPage = 2
  /\ scale = Num(3)
  /\ pageDimensions = Viewport(ViewDoc, 2, Num(3))
  /\ annotations = ViewStore

\* The click just handled came with a tool armed and lay beside the rendered
\* surface: left of or above it, or beyond its width or its height.
ClickedOutside ==
  /\ last'.op = "click" /\ last'.tool # "none"
  /\ \/ last'.cx < 0 \/ last'.cx > canvas.width
     \/ last'.cy < 0 \/ last'.cy > canvas.height

\* C15: a placement click whose position is below 0% or above 100% of the
\* rendered surface on either axis creates no annotation, opens no image picker
\* and leaves the store, the tool and the selection as they were.
OutsideClickRejected ==
  [][ClickedOutside =>
       /\ annotations' = annotations
       /\ selectedTool' = selectedTool
       /\ selectedAnnotationId' = selectedAnnotationId
       /\ picks' = picks
       /\ nextId' = nextId]_vars

\* A click with the text tool armed landed on the selected image's box right of
\* the page, and the tool is still armed, the image still selected and alone.
OutsideClickWitness ==
  /\ last.op = "click" /\ last.tool = "text" /\ last.target = "annotation"
  /\ last.cx > canvas.width
  /\ selectedTool = "text"
  /\ selectedAnnotationId = 1
  /\ Len(annotations) = 1

\* A step of an export, or a document load or a page render failing.
ExportOrFailureStep ==
  last'.op \in {"download", "exportDone", "loadFailed", "renderFailed"}

\* C16: the start and the end of an export, whatever its outcome, and the
\* failure of a document load or of a page render leave the store as it was.
FailuresKeepStore == [][ExportOrFailureStep => annotations' = annotations]_vars

\* An export failed as a whole and the store still holds what the export
\* captured.
FailuresWitness ==
  /\ last.op = "exportDone"
  /\ ~download[1].ok
  /\ annotations # << >>
  /\ annotations = last.export.annotations

\* A load failed with an annotation in the store, which is still there.
LoadFailureWitness ==
  /\ last.op = "loadFailed"
  /\ pdfLoadingError # ""
  /\ annotations # << >>

\* The titles of the toasts of the export that ended last.
ToastTitles == {download[1].toasts[i].title : i \in 1..Len(download[1].toasts)}

\* C17: an export whose document cannot be reopened or whose output cannot be
\* serialized ends failed, shows "Download Failed" and starts no download; a
\* download is started only by an export that serialized its output; and the
\* handler called with no file chosen starts no export and shows "No PDF" only.
ExportFailureLaw ==
  /\ last.op = "exportDone" =>
       /\ (last.fault \in {"load", "save"} \/ last.export.file \notin GoodDocs) =>
            /\ ~download[1].ok
            /\ ~download[1].downloaded
            /\ download[1].draws = << >>
            /\ "Download Failed" \in ToastTitles
            /\ "Download Started" \notin ToastTitles
       /\ download[1].downloaded =>
            /\ last.fault = "none"
            /\ download[1].ok
            /\ "Download Started" \in ToastTitles
            /\ "Download Failed" \notin ToastTitles
  /\ last.op = "download" /\ ~last.hadFile =>
       /\ exports = EmptyBag
       /\ ~download[1].downloaded
       /\ ToastTitles = {"No PDF"}

\* The export of a file that opens in the viewer and holds an annotation failed
\* at serialization: nothing was downloaded and "Download Failed" was shown.
ExportFailureWitness ==
  /\ last.op = "exportDone" /\ last.fault = "save"
  /\ last.export.file \in GoodDocs
  /\ last.export.annotations # << >>
  /\ ~download[1].downloaded
  /\ "Download Failed" \in ToastTitles

\* C18: no two annotations in the store have the same id (and an id, once
\* assigned, is never changed by an update and never given to a later
\* annotation).
UniqueIds ==
  \A i, j \in 1..Len(annotations) : i # j => annotations[i].id # annotations[j].id

\* The indices at which the store differs before and after the step.
Changed == {i \in 1..Len(annotations) : i <= Len(annotations') /\ annotations'[i] # annotations[i]}

\* The store without its k-th record.
Without(store, k) == SubSeq(store, 1, k - 1) \o SubSeq(store, k + 1, Len(store))

\* C19: a placement leaves the store as it is or appends one record; a delete by
\* id removes exactly one record, the one with that id, and keeps the order of
\* the rest; every other step leaves the count and the order as they are and
\* changes at most one record, whose id it keeps, so that an update for an id
\* that is not in the store changes nothing.
StoreLaw ==
  [][/\ last'.op \in {"click", "imageAdded"} =>
          \/ annotations' = annotations
          \/ Len(annotations') = Len(annotations) + 1
               /\ SubSeq(annotations', 1, Len(annotations)) = annotations
     /\ last'.op = "delete" =>
          \E k \in 1..Len(annotations) :
            annotations[k].id = last'.id /\ annotations' = Without(annotations, k)
     /\ last'.op \notin {"click", "imageAdded", "delete", "fileChange"} =>
          /\ Len(annotations') = Len(annotations)
          /\ Cardinality(Changed) <= 1
          /\ \A i \in Changed : annotations'[i].id = annotations[i].id]_vars

\* The box of the annotation a resize move has just updated.
Resized == Find(annotations, resizeState[1].annotationId)

\* C20: after a resize move that updates an annotation, the far edges of its
\* box do not lie beyond 99.9% of the page: x + width <= 99.9 and
\* y + height <= 99.9, the sizes being the percentages the move stored.
FarEdgeLaw ==
  ResizeUpdated =>
    /\ RLe(RAdd(Resized.x, ParseFloat(Resized.width)), Rat(999, 10))
    /\ RLe(RAdd(Resized.y, ParseFloat(Resized.height)), Rat(999, 10))

\* |a - b| is at most the half unit of the second decimal that toFixed(2) may
\* round a stored size by.
RoundedEqual(a, b) == RLe(RSub(a, b), Rat(1, 200)) /\ RLe(RSub(b, a), Rat(1, 200))

\* The right and the bottom edge, in percent of the captured page extent, of the
\* box the resize in progress started from.
StartRight ==
  RAdd(resizeState[1].initialAnnotationXPercent,
       Pct(resizeState[1].initialPixelWidth, resizeState[1].initialPageDimensions.width))

StartBottom ==
  RAdd(resizeState[1].initialAnnotationYPercent,
       Pct(resizeState[1].initialPixelHeight, resizeState[1].initialPageDimensions.height))

\* C21: a resize move from a left handle leaves the right edge x + width where
\* it was at resize start, and one from a top handle leaves the bottom edge
\* y + height where it was, up to the rounding of the stored sizes.
OppositeCornerPinned ==
  ResizeUpdated =>
    /\ IncludesLeft(resizeState[1].handle) =>
         RoundedEqual(RAdd(Resized.x, ParseFloat(Resized.width)), StartRight)
    /\ IncludesTop(resizeState[1].handle) =>
         RoundedEqual(RAdd(Resized.y, ParseFloat(Resized.height)), StartBottom)


\* A stored size, read as a percentage, in pixels of the page extent.
StoredPixels(dim, extent) == RMul(RDiv(ParseFloat(dim), Num(100)), extent)

\* C22, as stated: after a resize move that updates an annotation, its stored
\* width and height, converted to pixels of the captured page extent, are each at
\* least 20 px.
MinimumSizeKept ==
  ResizeUpdated =>
    /\ RLe(Num(MinPixelSize),
           StoredPixels(Resized.width, resizeState[1].initialPageDimensions.width))
    /\ RLe(Num(MinPixelSize),
           StoredPixels(Resized.height, resizeState[1].initialPageDimensions.height))

\* C22, amended: after a resize move that updates an annotation, its stored
\* width and height are each at least the percentage that 20 px is of the captured
\* page extent, less the half hundredth that toFixed(2) may round away.
MinimumSizeRounded ==
  ResizeUpdated =>
    /\ RLe(RSub(Pct(Num(MinPixelSize), resizeState[1].initialPageDimensions.width),
                Rat(1, 200)),
           ParseFloat(Resized.width))
    /\ RLe(RSub(Pct(Num(MinPixelSize), resizeState[1].initialPageDimensions.height),
                Rat(1, 200)),
           ParseFloat(Resized.height))

\* A resize move took the pointer inward past the floor on a 600 px wide page:
\* the width stored is 20 px of it rounded to hundredths of a percent, "3.33%",
\* which is 19.98 px.
MinimumSizeWitness ==
  /\ ResizeUpdated
  /\ RLt(ResizeGeometry(resizeState[1], last.cx, last.cy).width,
         Pct(RAdd(Num(MinPixelSize), Num(1)), resizeState[1].initialPageDimensions.width))
  /\ Resized.width = <<"3", ".", "3", "3", "%">>
  /\ RLt(StoredPixels(Resized.width, resizeState[1].initialPageDimensions.width),
         Num(MinPixelSize))


\* While a resize is in progress, the annotation its id finds is an image.
ResizingAnImage ==
  (resizeState # None /\ resizeState[1].annotationId \in Ids(annotations)) =>
    Find(annotations, resizeState[1].annotationId).type = "image"

\* A text annotation stays a text annotation, and its width stays what it was
\* unless the step is an edit of a width field in the panel.
TextWidthStep ==
  last'.op \notin {"delete", "fileChange"} =>
    \A i \in 1..Len(annotations) :
      annotations[i].type = "text" =>
        /\ annotations'[i].type = "text"
        /\ annotations'[i].width # annotations[i].width =>
             last'.op = "edit" /\ last'.field = "width"

\* C23: whenever a resize is in progress its annotation is an image, and no
\* pointer gesture changes the width of a text annotation: only the numeric
\* width edit does.
OnlyImagesResized == []ResizingAnImage /\ [][TextWidthStep]_vars


\* s is a decimal numeral with exactly two decimals followed by "%".
TwoDecimalPercent(s) ==
  /\ Len(s) >= 5
  /\ s[Len(s)] = "%"
  /\ s[Len(s) - 3] = "."
  /\ \A i \in 1..(Len(s) - 1) : i # Len(s) - 3 => IsDigit(s[i])

\* v is a number and not NaN.
PlainNumber(v) == Len(v) = 2 /\ v[2] > 0

\* C24: after a resize move that updates an image, its width and height are
\* strings of two decimals and "%", whose value is the resized pixel size as a
\* percentage of the page extent captured at resize start (to the rounding),
\* whatever unit the sizes had before; x and y are numbers.
ResizeStoresPercent ==
  ResizeUpdated =>
    /\ TwoDecimalPercent(Resized.width)
    /\ TwoDecimalPercent(Resized.height)
    /\ RoundedEqual(ParseFloat(Resized.width),
                    ResizeGeometry(resizeState[1], last.cx, last.cy).width)
    /\ RoundedEqual(ParseFloat(Resized.height),
                    ResizeGeometry(resizeState[1], last.cx, last.cy).height)
    /\ (last.cx = resizeState[1].startX /\ last.cy = resizeState[1].startY) =>
         /\ RoundedEqual(ParseFloat(Resized.width),
                         Pct(RMax(resizeState[1].initialPixelWidth, Num(MinPixelSize)),
                             resizeState[1].initialPageDimensions.width))
         /\ RoundedEqual(ParseFloat(Resized.height),
                         Pct(RMax(resizeState[1].initialPixelHeight, Num(MinPixelSize)),
                             resizeState[1].initialPageDimensions.height))
    /\ PlainNumber(Resized.x)
    /\ PlainNumber(Resized.y)

\* A resize move updated an image whose sizes were given in points, after the
\* zoom changed during the resize: 100 px of the 400 px captured is "25.00%".
ResizeStoresPercentWitness ==
  /\ ResizeUpdated
  /\ EndsWith(resizeState[1].initialAnnotation.width, <<"p", "t">>)
  /\ pageDimensions # resizeState[1].initialPageDimensions
  /\ Resized.width = <<"2", "5", ".", "0", "0", "%">>


\* The last event was a mouse button going down on an annotation: on its
\* element, in its text box or on one of its handles.
PointerDownOn == last.op \in {"bodyDown", "textareaDown", "handleDown"}

\* After a pointer-down on an annotation, that annotation is the selected one.
PointerDownSelected == PointerDownOn => selectedAnnotationId = last.id

\* A pointer-down on a handle leaves a resize of that annotation in progress
\* and starts no drag.
HandleDownStep ==
  last'.op = "handleDown" =>
    /\ resizeState' # None /\ resizeState'[1].annotationId = last'.id
    /\ draggingAnnotationId' = draggingAnnotationId
    /\ dragStartOffset' = dragStartOffset

\* C25: after a pointer-down on an annotation's body or on one of its handles
\* that annotation is the selected one, whatever was selected before; a
\* pointer-down on a handle starts a resize and never a drag.
PointerDownSelects == []PointerDownSelected /\ [][HandleDownStep]_vars

\* The same of the pointer-downs that reach the annotation's own handlers: those
\* on the element outside a text box, and those on handles.
HandledDownSelects ==
  /\ [](last.op \in {"bodyDown", "handleDown"} => selectedAnnotationId = last.id)
  /\ [][HandleDownStep]_vars


\* The step is a click on the background, the viewer's own or the canvas, with
\* no gesture in progress (a click during one is ignored, 374).
BackgroundClick == last'.op = "click" /\ last'.target \in {"viewer", "canvas"} /\ ~last'.busy

Placed == annotations'[Len(annotations')]

\* A click that opens the image picker captures the page shown and the click
\* position in percent of the canvas, brought into [0, 99.9].
PickStep ==
  \A p \in BagToSet(picks') :
    (p.stage = "picker" /\ CopiesIn(p, picks) < CopiesIn(p, picks')) =>
      /\ last'.op = "click"
      /\ p.page = currentPage
      /\ p.x = Limited(Pct(Num(last'.cx), Num(canvas.width)))
      /\ p.y = Limited(Pct(Num(last'.cy), Num(canvas.height)))

\* A step that makes the store longer appends one annotation with the default
\* geometry: a text where and on the page the click was made, an image where and
\* on the page the click that opened its picker was made.  It selects the
\* annotation and resets the tool.
AppendStep ==
  Len(annotations') > Len(annotations) =>
    /\ Len(annotations') = Len(annotations) + 1
    /\ SubSeq(annotations', 1, Len(annotations)) = annotations
    /\ selectedTool' = "none"
    /\ selectedAnnotationId' = Placed.id
    /\ Placed.rotation = 0
    /\ IF Placed.type = "text"
         THEN /\ last'.op = "click"
              /\ Placed.page = currentPage
              /\ Placed.x = Limited(Pct(Num(last'.cx), Num(canvas.width)))
              /\ Placed.y = Limited(Pct(Num(last'.cy), Num(canvas.height)))
              /\ Placed.width = Num(20) /\ Placed.height = Num(5) /\ Placed.fontSize = 12
         ELSE /\ Placed.width = <<"2", "5", "%">> /\ Placed.height = <<"1", "5", "%">>
              /\ \E p \in BagToSet(picks) :
                   /\ p.stage = "reading" /\ CopiesIn(p, picks') < CopiesIn(p, picks)
                   /\ Placed.page = p.page /\ Placed.x = p.x /\ Placed.y = p.y

\* An annotation is appended only while a tool is active, which the append
\* resets: where tools are switched with no placement under way, an append with
\* no tool active is the second one of the same activation.
ActivationUsedOnce == Len(annotations') > Len(annotations) => selectedTool # "none"

\* C27: an accepted placement appends exactly one annotation, on the page shown
\* at the click, at the click position brought into [0, 99.9], with the default
\* geometry; the append resets the tool and selects the annotation, and one
\* activation of a tool places at most one annotation.
PlacementLaw == [][PickStep /\ AppendStep /\ ActivationUsedOnce]_vars

\* The same without the bound on the activations.
PlacementDefaults == [][PickStep /\ AppendStep]_vars


\* C28: a text is exported with the wrap width (width/100) * pageWidth and at
\* the baseline pageHeight - (y/100) * pageHeight - fontSize, which is the flipped
\* Y of a box 1.5 * fontSize high plus that height less the font size: the stored
\* height plays no part.
TextExportLaw ==
  last.op = "exportDone" /\ download[1].ok =>
    \A i \in 1..Len(download[1].draws) :
      download[1].draws[i].op = "drawText" =>
        /\ download[1].draws[i].maxWidth =
             RMul(RDiv(Exported(download[1].draws[i].id).width, Num(100)),
                  Num(DocPages(download[1].file)[download[1].draws[i].page][1]))
        /\ download[1].draws[i].y =
             RSub(RSub(Num(DocPages(download[1].file)[download[1].draws[i].page][2]),
                       RMul(RDiv(Exported(download[1].draws[i].id).y, Num(100)),
                            Num(DocPages(download[1].file)[download[1].draws[i].page][2]))),
                  Num(Exported(download[1].draws[i].id).fontSize))
        /\ download[1].draws[i].y =
             RAdd(FlippedY(Num(DocPages(download[1].file)[download[1].draws[i].page][2]),
                           RMul(RDiv(Exported(download[1].draws[i].id).y, Num(100)),
                                Num(DocPages(download[1].file)[download[1].draws[i].page][2])),
                           RMul(Num(Exported(download[1].draws[i].id).fontSize), Rat(3, 2))),
                  RSub(RMul(Num(Exported(download[1].draws[i].id).fontSize), Rat(3, 2)),
                       Num(Exported(download[1].draws[i].id).fontSize)))

\* An export drew a text of font size 24 and width 12.5, placed half way down a
\* page 400 wide and 200 high: wrap width 50, baseline 200 - 100 - 24 = 76, where
\* the stored height is 5.
TextExportWitness ==
  /\ last.op = "exportDone" /\ download[1].ok
  /\ Len(download[1].draws) = 1
  /\ Exported(1).fontSize = 24 /\ Exported(1).height = Num(5)
  /\ download[1].draws[1].op = "drawText"
  /\ download[1].draws[1].maxWidth = Num(50)
  /\ download[1].draws[1].y = Num(76)


\* An image annotation one of whose size fields has no readable magnitude.
Unparseable(a) ==
  a.type = "image" /\ (a.width \in UnparseableStrings \/ a.height \in UnparseableStrings)

\* The draws of the finished export that are of annotation id.
DrawsOf(id) ==
  {download[1].draws[k] : k \in {j \in 1..Len(download[1].draws) : download[1].draws[j].id = id}}

\* dim ends in one of the units px, pt, em.
InPoints(dim) ==
  EndsWith(dim, <<"p", "x">>) \/ EndsWith(dim, <<"p", "t">>) \/ EndsWith(dim, <<"e", "m">>)

FailsInLoop(doc, a) == Throws(doc, a) \/ Unembeddable(a)

\* C30: an export whose document loads and saves is never aborted by the
\* failure of one annotation, a page outside the exported document's pages
\* included: the document is saved and downloaded, and every annotation whose
\* own turn does not fail is drawn, in the order of the list.
AnnotationFailuresRecovered ==
  (last.op = "exportDone" /\ last.fault = "none" /\ last.export.file \in GoodDocs) =>
    LET doc  == last.export.file
        Ok(a) == ~FailsInLoop(doc, a)
        kept == SelectSeq(last.export.annotations, Ok)
        out  == download[1]
    IN  /\ out.ok /\ out.downloaded
        /\ [i \in 1..Len(out.draws) |-> out.draws[i].id] = [i \in 1..Len(kept) |-> kept[i].id]

\* An export of the one-page document ended whose list holds a text on page 1
\* and an image on page 2, and nothing was downloaded.
StrayPageAborts ==
  /\ last.op = "exportDone" /\ last.fault = "none"
  /\ last.export.file = MachineDoc
  /\ \E i, j \in 1..Len(last.export.annotations) :
       /\ last.export.annotations[i].type = "text" /\ last.export.annotations[i].page = 1
       /\ last.export.annotations[j].type = "image" /\ last.export.annotations[j].page = 2
  /\ ~download[1].ok /\ ~download[1].downloaded

\* The positions in the export's list of the annotations with the ids of seq,
\* seq being a sequence of records with an id; ids are distinct in the list.
PositionsInList(seq) ==
  [k \in 1..Len(seq) |->
     CHOOSE i \in 1..Len(last.export.annotations) : last.export.annotations[i].id = seq[k].id]

Increasing(f) == \A i, j \in DOMAIN f : i < j => f[i] < f[j]

NonDecreasing(f) == \A i, j \in DOMAIN f : i < j => f[i] <= f[j]

ExportSucceeded == last.op = "exportDone" /\ download[1].ok

\* C31 as worded: the export goes page by page, so what is drawn on a page is
\* drawn before anything is drawn on a later page.
PageByPage ==
  ExportSucceeded =>
    NonDecreasing([k \in 1..Len(download[1].draws) |-> download[1].draws[k].page])

\* C31: the export takes the annotations one at a time in the order of the list,
\* whatever their pages: each is drawn at most once, the draws follow the order
\* of the list, and so do the messages raised for the annotations.
ListOrder ==
  ExportSucceeded =>
    LET out     == download[1]
        notices == SelectSeq(out.toasts, LAMBDA t : t.id # 0)
    IN  /\ Increasing(PositionsInList(out.draws))
        /\ NonDecreasing(PositionsInList(notices))

\* An export drew an annotation of page 2 before an annotation of page 1 that
\* comes after it in the list.
ListOrderWitness ==
  /\ ExportSucceeded
  /\ Len(last.export.annotations) >= 2
  /\ last.export.annotations[1].page = 2 /\ last.export.annotations[2].page = 1
  /\ Len(download[1].draws) >= 2
  /\ download[1].draws[1].id = last.export.annotations[1].id
  /\ download[1].draws[2].id = last.export.annotations[2].id

\* The export that just ended saved its output and started the download, or
\* failed as a whole.
ExportCompleted ==
  download[1].ok /\ download[1].downloaded /\ "Download Started" \in ToastTitles

ExportFailed ==
  ~download[1].ok /\ ~download[1].downloaded /\ "Download Failed" \in ToastTitles

\* An export leaves the exports under way only by ending, with the outcome of
\* the file and the annotations it started with.
ExportLeavesByEnding ==
  \A e \in BagToSet(exports) :
    CopiesIn(e, exports') < CopiesIn(e, exports) =>
      /\ last'.op = "exportDone" /\ last'.export = e
      /\ download' = Some(ExportOf(e.file, e.annotations, last'.fault))

\* C32: an export started with a document chosen ends, completed or failed as a
\* whole, when its awaited calls all resolve or reject; and no edit, deletion,
\* page change, zoom change or new document takes an export under way out of
\* the exports under way.
ExportRunsToEnd ==
  /\ (last.op = "download" /\ last.hadFile)
       ~> (last.op = "exportDone" /\ (ExportCompleted \/ ExportFailed))
  /\ [][ExportLeavesByEnding]_vars

\* An export completed after another document was chosen and the store was
\* emptied while it was under way.
ExportRunsToEndWitness ==
  /\ last.op = "exportDone"
  /\ ExportCompleted
  /\ last.export.file = ViewDoc /\ pdfFile = MachineDoc
  /\ last.export.annotations = RunStore /\ annotations = << >>
  /\ download[1].draws # << >>

\* No load and no render is under way and no error is shown.
AtRest ==
  /\ loads = EmptyBag /\ renders = EmptyBag
  /\ pdfDoc # NoDoc /\ pdfLoadingError = ""

\* C33: when the renders under way have all finished, the recorded page
\* dimensions are those of the request issued last, the page and the zoom of
\* the state, in whatever order the renders finished.
LatestRenderWins == AtRest => pageDimensions = Viewport(pdfDoc, currentPage, scale)

\* Both renders finished, the earlier request's last: the recorded dimensions
\* are the earlier request's, not those of the page and zoom shown.
StaleRenderWins ==
  /\ AtRest
  /\ currentPage = 1 /\ scale = Num(2)
  /\ pageDimensions = Viewport(pdfDoc, 2, Rat(3, 2))

\* A document load failed and no other load is under way.
LoadFailedLast == last.op = "loadFailed" /\ loads = EmptyBag

\* No document is held open, no page is counted and an error is shown.
NothingOpen == pdfDoc = NoDoc /\ numPages = 0 /\ pdfLoadingError # ""

\* No annotation is added to the store while no document is open.
NoPlacementWithoutDocument == pdfDoc = NoDoc => Len(annotations') <= Len(annotations)

\* C34: after a document load failed, the file unreadable or the document
\* rejected, no document is held open, the page count is 0 and an error message
\* is set; and no annotation is placed until a document is opened.
LoadFailureLeavesNothing ==
  /\ [](LoadFailedLast => NothingOpen)
  /\ [][NoPlacementWithoutDocument]_vars

\* The file chosen over an open document could not be read: the earlier
\* document is still held open with its page count.
UnreadableKeepsDocument ==
  /\ LoadFailedLast
  /\ pdfFile \in BadDocs
  /\ pdfDoc = ViewDoc /\ numPages = Len(DocPages(ViewDoc))
  /\ pdfLoadingError # ""

\* A document that pdf.js rejects leaves nothing open.
RejectedLeavesNothing ==
  (LoadFailedLast /\ pdfLoadingError = "load") => NothingOpen

DragListeners == {"handleDragMove", "handleDragEnd"}

ResizeListeners == {"handleResizeMouseMove", "handleResizeMouseUp"}

\* The listener a step of the machine was called through, if it is one.
CalledListener ==
  CASE last'.op = "dragMove" -> {"handleDragMove"}
    [] last'.op = "resizeMove" -> {"handleResizeMouseMove"}
    [] last'.op = "mouseUp" /\ last'.wasDragging -> {"handleDragEnd"}
    [] last'.op = "mouseUp" /\ ~last'.wasDragging -> {"handleResizeMouseUp"}
    [] OTHER -> {}

RegisteredWhileActive ==
  /\ (draggingAnnotationId = 0 /\ resizeState = None) => Listeners = {}
  /\ draggingAnnotationId # 0 => DragListeners \subseteq Listeners
  /\ resizeState # None => ResizeListeners \subseteq Listeners

\* C35: no listener is registered on the document while the machine is Idle,
\* the drag listeners are registered whenever a drag is active, the resize
\* listeners whenever a resize is active, and a move or an up reaches the
\* machine only through a registered listener.
ListenersFollowMachine ==
  /\ []RegisteredWhileActive
  /\ [][CalledListener \subseteq Listeners]_vars

\* The same with the resize listeners owed only while no drag is active.
ListenersFollowDragFirst ==
  /\ [](/\ (draggingAnnotationId = 0 /\ resizeState = None) => Listeners = {}
        /\ draggingAnnotationId # 0 => Listeners = DragListeners
        /\ (draggingAnnotationId = 0 /\ resizeState # None) => Listeners = ResizeListeners)
  /\ [][CalledListener \subseteq Listeners]_vars

\* A drag and a resize are active together and only the drag listeners are
\* registered.
ResizeWithoutListeners ==
  /\ draggingAnnotationId # 0 /\ resizeState # None
  /\ Listeners = DragListeners

\* C36: the selected annotation id is none or the id of an annotation of the
\* store, whatever placements, selections, deletions, document choices and
\* image file reads came before.
SelectionInStore == selectedAnnotationId = 0 \/ selectedAnnotationId \in Ids(annotations)

\* The selected annotation was deleted, another one is left in the store and
\* nothing is selected.
SelectionDeletedWitness ==
  /\ last.op = "delete" /\ last.wasSelected
  /\ annotations # << >>
  /\ selectedAnnotationId = 0

\* An image whose file was picked before another document was chosen was added
\* to the store emptied by the choice, and is selected.
SelectionAfterSwitchWitness ==
  /\ last.op = "imageAdded"
  /\ Len(annotations) = 1
  /\ nextId > 2
  /\ selectedAnnotationId = annotations[1].id

\* The chosen document is open and no load is under way.
DocumentLoaded == pdfDoc # NoDoc /\ pdfDoc = pdfFile /\ loads = EmptyBag

StoredPagesInRange == \A i \in 1..Len(annotations) : annotations[i].page \in 1..numPages

CurrentPageInRange == DocumentLoaded => currentPage \in 1..numPages

\* C37: with the chosen document open and no load under way, every annotation
\* of the store is on a page of the document and so is the current page.
PagesInRange == DocumentLoaded => StoredPagesInRange /\ currentPage \in 1..numPages

\* The one-page document is open, no load is under way, and the store holds an
\* image placed on page 2.
StrayPageStored ==
  /\ DocumentLoaded
  /\ numPages = 1
  /\ \E i \in 1..Len(annotations) : annotations[i].type = "image" /\ annotations[i].page = 2

\* The geometry of annotation a.
Geometry(a) == <<a.x, a.y, a.width, a.height>>

\* After a drag move on a canvas of the extent it had at pointer-down, x and y
\* are given by the grab offset and the pointer's position alone.
DragFromContext ==
  DragUpdated /\ grab # None /\ canvas = grab[1].extent =>
    LET a == Find(annotations, draggingAnnotationId)
    IN  /\ a.x = Limited(RSub(Rat(last.cx * 100, canvas.width), dragStartOffset[1].x))
        /\ a.y = Limited(RSub(Rat(last.cy * 100, canvas.height), dragStartOffset[1].y))

\* After a resize move x, y, width and height are given by the context captured
\* at pointer-down and the pointer's position alone.
ResizeFromContext ==
  ResizeUpdated =>
    LET g == ResizeGeometry(resizeState[1], last.cx, last.cy)
    IN  Geometry(Resized) = <<g.x, g.y, PercentString(g.width), PercentString(g.height)>>

\* A move leaves the captured context as it is, a drag move leaves every width
\* and height as it is, and a move at the position of the move before it leaves
\* the store as it is.
MoveStep ==
  last'.op \in {"dragMove", "resizeMove"} =>
    /\ dragStartOffset' = dragStartOffset /\ resizeState' = resizeState
    /\ last'.op = "dragMove" =>
         /\ Len(annotations') = Len(annotations)
         /\ \A i \in 1..Len(annotations) :
              annotations'[i] = [annotations[i] EXCEPT !.x = annotations'[i].x,
                                                       !.y = annotations'[i].y]
    /\ (last.op = last'.op /\ last.cx = last'.cx /\ last.cy = last'.cy /\ canvas' = canvas) =>
         annotations' = annotations

\* C38: within a gesture on a surface of constant extent, what a drag move or a
\* resize move writes depends on the context captured at pointer-down and on
\* the pointer's position only: the moves before it leave no trace, and a move
\* repeated at the same position changes nothing.
MovesForgetHistory ==
  /\ [](DragFromContext /\ ResizeFromContext)
  /\ [][MoveStep]_vars

\* A drag went to another position and came back to the pointer-down point: the
\* annotation is where it was at pointer-down.
MovedBackWitness ==
  /\ DragUpdated /\ last.moved
  /\ grab # None /\ canvas = grab[1].extent
  /\ last.cx = grab[1].cx /\ last.cy = grab[1].cy
  /\ Find(annotations, draggingAnnotationId).x = grab[1].x
  /\ Find(annotations, draggingAnnotationId).y = grab[1].y

\* A resize went to another position and came back to the pointer-down point:
\* the image is where it was at pointer-down.
ResizedBackWitness ==
  /\ ResizeUpdated /\ last.moved
  /\ last.cx = resizeState[1].startX /\ last.cy = resizeState[1].startY
  /\ Resized.x = resizeState[1].initialAnnotationXPercent
  /\ Resized.y = resizeState[1].initialAnnotationYPercent

\* The draw of the finished export for the captured annotation a shows a's
\* fields as captured.
DrawnAsCaptured(d, a) ==
  LET pw == Num(DocPages(last.export.file)[a.page][1])
      ph == Num(DocPages(last.export.file)[a.page][2])
  IN  /\ d.id = a.id /\ d.page = a.page /\ d.rotate = a.rotation
      /\ d.x = RMul(RDiv(a.x, Num(100)), pw)
      /\ a.type = "text" =>
           /\ d.op = "drawText" /\ d.text = a.text /\ d.size = a.fontSize
           /\ d.maxWidth = RMul(RDiv(a.width, Num(100)), pw)
           /\ d.y = RSub(RSub(ph, RMul(RDiv(a.y, Num(100)), ph)), Num(a.fontSize))
      /\ a.type = "image" =>
           /\ d.op = "drawImage"
           /\ d.width = FinalAnnoWidthInPoints(a.width, ParseFloat(a.width), pw)
           /\ d.height = FinalAnnoHeightInPoints(a.height, ParseFloat(a.height), ph)
           /\ d.y = RSub(RSub(ph, RMul(RDiv(a.y, Num(100)), ph)), d.height)

\* C39: a finished export has drawn the annotations of the list it started
\* with, each with the fields it had then, whatever was added to, deleted from,
\* moved or edited in the store while the export was under way.
ExportDrawsSnapshot ==
  ExportSucceeded =>
    LET kept == SelectSeq(last.export.annotations, Embeddable)
        out  == download[1]
    IN  /\ Len(out.draws) = Len(kept)
        /\ \A k \in 1..Len(kept) : DrawnAsCaptured(out.draws[k], kept[k])

\* The export drew the image where it was when the export started; meanwhile
\* the image was dragged elsewhere and a text was added.
ExportDrawsSnapshotWitness ==
  /\ ExportSucceeded
  /\ last.export.annotations = SnapshotStore
  /\ Len(annotations) = 2
  /\ annotations[1].x # SnapshotStore[1].x
  /\ Len(download[1].draws) = 1
  /\ download[1].draws[1].x = Num(200)

\* The export drew the image that was deleted while the export was under way.
DeletedStillDrawn ==
  /\ ExportSucceeded
  /\ last.export.annotations = SnapshotStore
  /\ annotations = << >>
  /\ Len(download[1].draws) = 1

====
